---- MODULE Spec2Model ----
(***************************************************************************)
(* Verification model of the FocusFrame video-effects-processor            *)
(* (go-rust-backend/internal/video/video-editing-engine/                   *)
(*  video-effects-processor/src/lib.rs).                                   *)
(*                                                                         *)
(* Four specifications share this module:                                  *)
(*   SpecProcess  - process_video_with_cursor, the FFI entry point, with   *)
(*                  the stages it sequences and the progress callback;     *)
(*   SpecAlign    - AlignmentState under arbitrary add_sample/get_offset   *)
(*                  call sequences;                                        *)
(*   SpecHermite  - find_position_for_timestamp_hermite on bounded paths;  *)
(*   SpecTargets  - generate_targets_with_click_constraints on bounded      *)
(*                  anchors and splines.                                   *)
(*                                                                         *)
(* Floating point values are modelled in exact or fixed-point integer      *)
(* arithmetic; the unit of every quantity is stated where it is defined.   *)
(***************************************************************************)
EXTENDS Integers, Sequences, FiniteSets, TLC

VARIABLES
    \* ---- process_video_with_cursor ----
    pc,             \* position inside process_video_with_cursor
    args,           \* the arguments of the call
    progress,       \* values passed to progress_callback, in call order
    ret,            \* return code ([is_some, val])
    stages,         \* stages that have started: "inspect", "smooth", "render"
    smooth_ok,      \* smooth_cursor_path_with_params returned Ok
    processed_frames, \* render loop counter (lib.rs:621)
    frame_number,   \* render loop counter (lib.rs:620)
    \* ---- AlignmentState ----
    alignment,      \* the AlignmentState object
    align_call,     \* the last call made on it and what it returned
    \* ---- find_position_for_timestamp_hermite ----
    h_path, h_query, h_result,
    \* ---- generate_targets_with_click_constraints ----
    g_raw, g_spline, g_fps, g_targets, g_pc,
    \* ---- render_video_with_overlay, the per-frame loop ----
    render_pc,      \* position inside render_video_with_overlay
    render_cfg,     \* the input stream: avg_frame_rate, first pts, callback, frames()
    smoothed_path,  \* the PathPoints handed to the renderer
    decoded,        \* frames the decoder has emitted, in emission order
    sent,           \* frames passed to encoder.send_frame, in call order
    written,        \* packets written to the container so far
    cur_pts,        \* lib.rs:633
    events,          \* send_eof / write_trailer calls, in call order
    \* ---- derive_spring_params ----
    p_in, p_out,
    \* ---- spring_follow_path ----
    s_points, s_config, s_out, s_steps, s_pc,
    \* ---- catmull_rom_spline ----
    cr_in, cr_out,
    \* ---- composite_cursor_subpixel / overlay_image_on_rgb_frame ----
    c_in, c_out,
    \* ---- cumulative_lengths ----
    a_points, a_cum,
    \* ---- smooth_cursor_path_with_params ----
    m_points, m_config, m_out,
    \* ---- position_at_distance ----
    d_in, d_out,
    \* ---- ensure_ffmpeg_init ----
    FFMPEG_INIT, init_threads, init_log

procVars == <<pc, args, progress, ret, stages, smooth_ok, processed_frames, frame_number>>
alignVars == <<alignment, align_call>>
hermiteVars == <<h_path, h_query, h_result>>
targetVars == <<g_raw, g_spline, g_fps, g_targets, g_pc>>
renderVars == <<render_pc, render_cfg, smoothed_path, decoded, sent, written, cur_pts, events>>
paramVars == <<p_in, p_out>>
springVars == <<s_points, s_config, s_out, s_steps, s_pc>>
splineVars == <<cr_in, cr_out>>
compVars == <<c_in, c_out>>
arcVars == <<a_points, a_cum>>
smoothVars == <<m_points, m_config, m_out>>
posVars == <<d_in, d_out>>
initVars == <<FFMPEG_INIT, init_threads, init_log>>
extVars == <<renderVars, paramVars, springVars, splineVars, compVars, arcVars, smoothVars, posVars, initVars>>
vars == <<procVars, alignVars, hermiteVars, targetVars, extVars>>

\* What the actions of one component leave unchanged in the others
coreVars == <<procVars, alignVars, hermiteVars, targetVars>>
notRenderVars == <<paramVars, springVars, splineVars, compVars, arcVars, smoothVars, posVars, initVars>>
notParamVars == <<coreVars, renderVars, springVars, splineVars, compVars, arcVars, smoothVars, posVars, initVars>>
notSpringVars == <<coreVars, renderVars, paramVars, splineVars, compVars, arcVars, smoothVars, posVars, initVars>>
notSplineVars == <<coreVars, renderVars, paramVars, springVars, compVars, arcVars, smoothVars, posVars, initVars>>
notCompVars == <<coreVars, renderVars, paramVars, springVars, splineVars, arcVars, smoothVars, posVars, initVars>>
notArcVars == <<coreVars, renderVars, paramVars, springVars, splineVars, compVars, smoothVars, posVars, initVars>>
notSmoothVars == <<coreVars, renderVars, paramVars, springVars, splineVars, compVars, arcVars, posVars, initVars>>
notPosVars == <<coreVars, renderVars, paramVars, springVars, splineVars, compVars, arcVars, smoothVars, initVars>>
notInitVars == <<coreVars, renderVars, paramVars, springVars, splineVars, compVars, arcVars, smoothVars, posVars>>

\* ------------------------------------------------------------------------
\* Bounds
\* ------------------------------------------------------------------------
MaxSamples == 5        \* raw_cursor_points_len ranges over 0..MaxSamples
MaxTotalFrames == 3    \* stream.frames() ranges over 0..MaxTotalFrames
MaxDecoded == 4        \* frames the decoder hands out in one run

\* ------------------------------------------------------------------------
\* Option values
\* ------------------------------------------------------------------------
None == [is_some |-> FALSE, val |-> 0]
Some(v) == [is_some |-> TRUE, val |-> v]

\* ------------------------------------------------------------------------
\* Progress values: the f32 passed to the callback, as an exact fraction
\* <<numerator, denominator>> with a positive denominator.
\* ------------------------------------------------------------------------
RatLeq(a, b) == a[1] * b[2] <= b[1] * a[2]
RatEq(a, b) == a[1] * b[2] = b[1] * a[2]
RatMin(a, b) == IF RatLeq(a, b) THEN a ELSE b

ProgressEntry == <<0, 1>>       \* cb(0.0)
ProgressSmoothed == <<1, 10>>   \* cb(0.1)
ProgressCap == <<99, 100>>      \* .min(0.99)
ProgressDone == <<1, 1>>        \* cb(1.0)

\* RenderProgress without the cap
RenderProgress_NoCap(processed, total) == <<total + 9 * processed, 10 * total>>

\* RenderProgress capped at 1.0 instead of 0.99
RenderProgress_CapOne(processed, total) ==
    RatMin(<<total + 9 * processed, 10 * total>>, ProgressDone)

\* 0.1 + (0.9 * (processed_frames / total_frames)), capped at 0.99
RenderProgress(processed, total) ==
    RatMin(<<total + 9 * processed, 10 * total>>, ProgressCap)

Report(value) == IF args.has_callback THEN Append(progress, value) ELSE progress

\* ------------------------------------------------------------------------
\* process_video_with_cursor
\* ------------------------------------------------------------------------
ArgSpace ==
    [input_null : BOOLEAN, output_null : BOOLEAN, cursor_null : BOOLEAN,
     points_null : BOOLEAN, config_null : BOOLEAN,
     input_utf8 : BOOLEAN, output_utf8 : BOOLEAN, cursor_utf8 : BOOLEAN,
     has_callback : BOOLEAN,
     raw_cursor_points_len : 0..MaxSamples,
     total_frames : 0..MaxTotalFrames]

\* AnyNull without the check of the config pointer
AnyNull_NoConfigCheck(a) ==
    a.input_null \/ a.output_null \/ a.cursor_null \/ a.points_null

AnyNull(a) ==
    a.input_null \/ a.output_null \/ a.cursor_null \/ a.points_null \/ a.config_null

AllUtf8(a) == a.input_utf8 /\ a.output_utf8 /\ a.cursor_utf8

\* calculate_frames_between_points: one count per consecutive pair
FrameCountsLen(n) == IF n >= 1 THEN n - 1 ELSE 0

\* SmoothFails with the minimum lowered to 3 points
SmoothFails_MinThree(n) == n < 3 \/ FrameCountsLen(n) # n - 1

\* The two failure exits of smooth_cursor_path_with_params
SmoothFails(n) == n < 4 \/ FrameCountsLen(n) # n - 1

Validate ==
    /\ pc = "start"
    /\ IF AnyNull(args)
       THEN /\ ret' = Some(-1)
            /\ pc' = "done"
       ELSE IF ~AllUtf8(args)
       THEN /\ ret' = Some(-2)
            /\ pc' = "done"
       ELSE /\ ret' = ret
            /\ pc' = "entry"
    /\ UNCHANGED <<args, progress, stages, smooth_ok, processed_frames, frame_number,
                   alignVars, hermiteVars, targetVars, extVars>>

ReportEntry ==
    /\ pc = "entry"
    /\ progress' = Report(ProgressEntry)
    /\ pc' = "inspect"
    /\ UNCHANGED <<args, ret, stages, smooth_ok, processed_frames, frame_number,
                   alignVars, hermiteVars, targetVars, extVars>>

\* Step 1: the inspection closure either yields the stream's values or fails
\* and the config fallback is taken; either way control reaches Step 2.
InspectVideo ==
    /\ pc = "inspect"
    /\ \E inspect_ok \in BOOLEAN :
          stages' = stages \cup {IF inspect_ok THEN "inspect" ELSE "inspect_fallback"}
    /\ pc' = "smooth"
    /\ UNCHANGED <<args, progress, ret, smooth_ok, processed_frames, frame_number,
                   alignVars, hermiteVars, targetVars, extVars>>

SmoothPath ==
    /\ pc = "smooth"
    /\ stages' = stages \cup {"smooth"}
    /\ IF SmoothFails(args.raw_cursor_points_len)
       THEN /\ ret' = Some(-3)
            /\ pc' = "done"
            /\ smooth_ok' = FALSE
       ELSE /\ ret' = ret
            /\ pc' = "smoothed"
            /\ smooth_ok' = TRUE
    /\ UNCHANGED <<args, progress, processed_frames, frame_number,
                   alignVars, hermiteVars, targetVars, extVars>>

ReportSmoothed ==
    /\ pc = "smoothed"
    /\ progress' = Report(ProgressSmoothed)
    /\ pc' = "render_open"
    /\ UNCHANGED <<args, ret, stages, smooth_ok, processed_frames, frame_number,
                   alignVars, hermiteVars, targetVars, extVars>>

RenderFail ==
    /\ ret' = Some(-4)
    /\ pc' = "done"

\* render_video_with_overlay up to the packet loop: init, sprite, contexts,
\* encoder, header, scalers; every `?` is a failure exit.
RenderOpen ==
    /\ pc = "render_open"
    /\ stages' = stages \cup {"render"}
    /\ \E ok \in BOOLEAN :
          IF ok THEN pc' = "packets" /\ ret' = ret ELSE RenderFail
    /\ UNCHANGED <<args, progress, smooth_ok, processed_frames, frame_number,
                   alignVars, hermiteVars, targetVars, extVars>>

\* One decoded frame of the packet loop, sent to the encoder; then the
\* progress callback when the stream announced a frame count.
RenderFrame ==
    /\ pc = "packets"
    /\ frame_number < MaxDecoded
    /\ frame_number' = frame_number + 1
    /\ processed_frames' = processed_frames + 1
    /\ progress' = IF args.total_frames > 0
                   THEN Report(RenderProgress(processed_frames + 1, args.total_frames))
                   ELSE progress
    /\ UNCHANGED <<pc, args, ret, stages, smooth_ok,
                   alignVars, hermiteVars, targetVars, extVars>>

\* A `?` inside the packet loop or the flush loops fails the render.
RenderError ==
    /\ pc \in {"packets", "flush_decoder", "flush_encoder"}
    /\ RenderFail
    /\ UNCHANGED <<args, progress, stages, smooth_ok, processed_frames, frame_number,
                   alignVars, hermiteVars, targetVars, extVars>>

\* The packet iterator is exhausted: decoder.send_eof()
PacketsEnd ==
    /\ pc = "packets"
    /\ pc' = "flush_decoder"
    /\ UNCHANGED <<args, progress, ret, stages, smooth_ok, processed_frames, frame_number,
                   alignVars, hermiteVars, targetVars, extVars>>

\* One frame drained from the decoder after EOF: no progress callback here.
FlushFrame ==
    /\ pc = "flush_decoder"
    /\ frame_number < MaxDecoded
    /\ frame_number' = frame_number + 1
    /\ UNCHANGED <<pc, args, progress, ret, stages, smooth_ok, processed_frames,
                   alignVars, hermiteVars, targetVars, extVars>>

\* encoder.send_eof() and the drain of the encoder
FlushEncoder ==
    /\ pc = "flush_decoder"
    /\ pc' = "flush_encoder"
    /\ UNCHANGED <<args, progress, ret, stages, smooth_ok, processed_frames, frame_number,
                   alignVars, hermiteVars, targetVars, extVars>>

\* write_trailer succeeded: Ok(_) arm of the caller
RenderDone ==
    /\ pc = "flush_encoder"
    /\ progress' = Report(ProgressDone)
    /\ ret' = Some(0)
    /\ pc' = "done"
    /\ UNCHANGED <<args, stages, smooth_ok, processed_frames, frame_number,
                   alignVars, hermiteVars, targetVars, extVars>>

ProcNext ==
    \/ Validate
    \/ ReportEntry
    \/ InspectVideo
    \/ SmoothPath
    \/ ReportSmoothed
    \/ RenderOpen
    \/ RenderFrame
    \/ RenderError
    \/ PacketsEnd
    \/ FlushFrame
    \/ FlushEncoder
    \/ RenderDone

\* ------------------------------------------------------------------------
\* AlignmentState.  Times are integers in units of half a millisecond, so
\* that the mean of two whole-millisecond samples is representable.  Frame
\* timestamps are whole milliseconds (ts.rescale(.., 1/1000) as f64), and
\* every buffered sample has the parity of path_start_ms, so the division
\* by 2.0 in the even-count median is exact.
\* ------------------------------------------------------------------------
TicksPerMs == 2
ALIGNMENT_SAMPLE_COUNT == 10
ALIGNMENT_MAX_WINDOW_MS == 500 * TicksPerMs

MaxFrameIdx == 1            \* frame timestamps are 0..MaxFrameIdx steps
FrameStepMs == 600 * TicksPerMs
FrameTimes == {k * FrameStepMs : k \in 0..MaxFrameIdx}
PathStarts == {0, 2469}     \* 0 ms and 1234.5 ms

AlignmentNew ==
    [samples |-> <<>>,
     max_samples |-> ALIGNMENT_SAMPLE_COUNT,
     max_window_ms |-> ALIGNMENT_MAX_WINDOW_MS,
     first_frame_ms |-> None,
     computed_offset |-> None]

Sorted(s) == SortSeq(s, LAMBDA a, b : a < b)

\* Median taking the upper middle element for an even count
Median_UpperMiddle(sorted) ==
    IF Len(sorted) % 2 = 0
    THEN sorted[(Len(sorted) \div 2) + 1]
    ELSE sorted[(Len(sorted) \div 2) + 1]

\* The median of compute_offset (sorted is 1-based here: the code's
\* sorted[mid - 1] and sorted[mid] are sorted[mid] and sorted[mid + 1])
Median(sorted) ==
    IF Len(sorted) % 2 = 0
    THEN LET mid == Len(sorted) \div 2
         IN  (sorted[mid] + sorted[mid + 1]) \div 2
    ELSE sorted[(Len(sorted) \div 2) + 1]

\* compute_offset(&mut self, _path_start_ms)
ComputeOffset(st) ==
    IF st.samples = <<>>
    THEN [st EXCEPT !.computed_offset = Some(0)]
    ELSE [st EXCEPT !.computed_offset = Some(Median(Sorted(st.samples)))]

\* A window test that also requires the buffer to be half full
WindowExceeded_HalfFull(st, frame_ms) ==
    LET elapsed == frame_ms - st.first_frame_ms.val
    IN  elapsed > st.max_window_ms /\ 2 * Len(st.samples) >= st.max_samples

\* The window test of add_sample, made once first_frame_ms is set
\* (lib.rs:125-127)
WindowExceeded(st, frame_ms) ==
    LET elapsed == frame_ms - st.first_frame_ms.val
    IN  elapsed > st.max_window_ms /\ st.samples # <<>>

\* add_sample without the early return on a computed offset
AddSampleOp_NoEarlyReturn(st, frame_ms, path_start) ==
    LET st1 == IF ~st.first_frame_ms.is_some
               THEN [st EXCEPT !.first_frame_ms = Some(frame_ms)]
               ELSE st
    IN  IF WindowExceeded(st1, frame_ms)
        THEN [st |-> ComputeOffset(st1), ret |-> TRUE]
        ELSE LET st2 == [st1 EXCEPT !.samples = Append(@, path_start - frame_ms)]
             IN  IF Len(st2.samples) >= st2.max_samples
                 THEN [st |-> ComputeOffset(st2), ret |-> TRUE]
                 ELSE [st |-> st2, ret |-> FALSE]

\* add_sample(&mut self, frame_ms, path_start_ms) -> bool
\* The result is [st |-> the state after the call, ret |-> the bool returned].
AddSampleOp(st, frame_ms, path_start) ==
    IF st.computed_offset.is_some
    THEN [st |-> st, ret |-> TRUE]
    ELSE LET st1 == IF ~st.first_frame_ms.is_some
                    THEN [st EXCEPT !.first_frame_ms = Some(frame_ms)]
                    ELSE st
         IN  IF WindowExceeded(st1, frame_ms)
             THEN [st |-> ComputeOffset(st1), ret |-> TRUE]
             ELSE LET st2 == [st1 EXCEPT !.samples = Append(@, path_start - frame_ms)]
                  IN  IF Len(st2.samples) >= st2.max_samples
                      THEN [st |-> ComputeOffset(st2), ret |-> TRUE]
                      ELSE [st |-> st2, ret |-> FALSE]

\* get_offset(&mut self, path_start_ms) -> f64
GetOffsetOp(st, path_start) ==
    LET st1 == IF ~st.computed_offset.is_some /\ st.samples # <<>>
               THEN ComputeOffset(st)
               ELSE st
    IN  [st |-> st1,
         ret |-> IF st1.computed_offset.is_some THEN st1.computed_offset.val ELSE 0]

AddSample ==
    /\ align_call.op # "idle"
    /\ \E frame_ms \in FrameTimes :
          LET r == AddSampleOp(alignment, frame_ms, align_call.path_start)
          IN  /\ alignment' = r.st
              /\ align_call' = [align_call EXCEPT !.op = "add_sample",
                                                  !.ready = r.ret,
                                                  !.frame_ms = frame_ms,
                                                  !.was_computed = alignment.computed_offset.is_some]
    /\ UNCHANGED <<procVars, hermiteVars, targetVars, extVars>>

GetOffset ==
    /\ align_call.op # "idle"
    /\ LET r == GetOffsetOp(alignment, align_call.path_start)
       IN  /\ alignment' = r.st
           /\ align_call' = [align_call EXCEPT !.op = "get_offset",
                                               !.offset = r.ret,
                                               !.was_computed = alignment.computed_offset.is_some]
    /\ UNCHANGED <<procVars, hermiteVars, targetVars, extVars>>

\* align_call: the last call (op), the bool add_sample returned (ready), the
\* value get_offset returned (offset), the path_start_ms of the render job,
\* whether the offset was already computed when that call was made, and the
\* frame_ms of the last add_sample.
AlignNext == AddSample \/ GetOffset

\* ------------------------------------------------------------------------
\* find_position_for_timestamp_hermite.  Timestamps are whole milliseconds,
\* positions are in 1/1000 px and velocities in px/s, so that a velocity
\* times a duration in ms is again in 1/1000 px (v * duration_ms / 1000 px).
\* The interpolated position is rounded down to 1/1000 px.
\* ------------------------------------------------------------------------
MaxPathLen == 3     \* PathPoints in a path
MaxTime == 2        \* timestamps range over 0..MaxTime

\* (x, y, vx, vy) of the PathPoints the paths are built from
PointPalette ==
    { [x |-> 0,    y |-> 0,    vx |-> 0,     vy |-> 0],
      [x |-> 1000, y |-> 2000, vx |-> 1000,  vy |-> -1000],
      [x |-> 3000, y |-> 1000, vx |-> -2000, vy |-> 500] }

PathPoints ==
    { [x |-> q.x, y |-> q.y, timestamp_ms |-> t, vx |-> q.vx, vy |-> q.vy] :
        q \in PointPalette, t \in 0..MaxTime }

NonDecreasing(s) == \A i \in 1..(Len(s) - 1) : s[i].timestamp_ms <= s[i + 1].timestamp_ms

Paths ==
    UNION { { s \in [1..n -> PathPoints] : NonDecreasing(s) } : n \in 0..MaxPathLen }

Queries == (0 - 1)..(MaxTime + 1)

NoPosition == [some |-> FALSE, x |-> 0, y |-> 0, clamped |-> FALSE]
Position(x, y, clamped) == [some |-> TRUE, x |-> x, y |-> y, clamped |-> clamped]

\* The window test with an exclusive upper end
MatchingWindows_HalfOpen(path, t) ==
    { i \in 1..(Len(path) - 1) :
        t >= path[i].timestamp_ms /\ t < path[i + 1].timestamp_ms }

\* path.windows(2).position(|w| t >= w[0].timestamp_ms && t <= w[1].timestamp_ms)
\* as the set of matching window indices; position() takes the smallest.
MatchingWindows(path, t) ==
    { i \in 1..(Len(path) - 1) :
        t >= path[i].timestamp_ms /\ t <= path[i + 1].timestamp_ms }

FirstWindow(path, t) ==
    CHOOSE i \in MatchingWindows(path, t) : \A j \in MatchingWindows(path, t) : i <= j

\* The cubic Hermite blend of one coordinate: a = t - t1 and d = duration_ms
\* give tau = a/d; the basis functions are written over the denominator d^3.
HermiteBlend(c1, v1, c2, v2, a, d) ==
    LET h00 == 2 * a * a * a - 3 * a * a * d + d * d * d
        h10 == a * a * a - 2 * a * a * d + a * d * d
        h01 == 3 * a * a * d - 2 * a * a * a
        h11 == a * a * a - a * a * d
    IN  (h00 * c1 + h10 * (v1 * d) + h01 * c2 + h11 * (v2 * d)) \div (d * d * d)

\* The lookup with the zero-duration branch returning the second point
FindPositionHermite_ReturnsP2(path, t) ==
    IF Len(path) = 0 THEN NoPosition
    ELSE IF Len(path) = 1 THEN Position(path[1].x, path[1].y, TRUE)
    ELSE IF MatchingWindows(path, t) # {}
    THEN LET index == FirstWindow(path, t)
             p1 == path[index]
             p2 == path[index + 1]
             duration_ms == p2.timestamp_ms - p1.timestamp_ms
         IN  IF duration_ms <= 0
             THEN Position(p2.x, p2.y, FALSE)
             ELSE Position(
                    HermiteBlend(p1.x, p1.vx, p2.x, p2.vx, t - p1.timestamp_ms, duration_ms),
                    HermiteBlend(p1.y, p1.vy, p2.y, p2.vy, t - p1.timestamp_ms, duration_ms),
                    FALSE)
    ELSE IF t < path[1].timestamp_ms
    THEN Position(path[1].x, path[1].y, TRUE)
    ELSE Position(path[Len(path)].x, path[Len(path)].y, TRUE)

FindPositionHermite(path, t) ==
    IF Len(path) = 0 THEN NoPosition
    ELSE IF Len(path) = 1 THEN Position(path[1].x, path[1].y, TRUE)
    ELSE IF MatchingWindows(path, t) # {}
    THEN LET index == FirstWindow(path, t)
             p1 == path[index]
             p2 == path[index + 1]
             duration_ms == p2.timestamp_ms - p1.timestamp_ms
         IN  IF duration_ms <= 0
             THEN Position(p1.x, p1.y, FALSE)
             ELSE Position(
                    HermiteBlend(p1.x, p1.vx, p2.x, p2.vx, t - p1.timestamp_ms, duration_ms),
                    HermiteBlend(p1.y, p1.vy, p2.y, p2.vy, t - p1.timestamp_ms, duration_ms),
                    FALSE)
    ELSE IF t < path[1].timestamp_ms
    THEN Position(path[1].x, path[1].y, TRUE)
    ELSE Position(path[Len(path)].x, path[Len(path)].y, TRUE)

\* The oracle as the render loop calls it
LookupPosition(path, t) == FindPositionHermite(path, t)

\* h_result: [done |-> the lookup ran, pos |-> what it returned]
HermiteLookup ==
    /\ ~h_result.done
    /\ h_result' = [done |-> TRUE, pos |-> LookupPosition(h_path, h_query)]
    /\ UNCHANGED <<h_path, h_query, procVars, alignVars, targetVars, extVars>>

\* ------------------------------------------------------------------------
\* Arc-length reparameterization and generate_targets_with_click_constraints.
\* Units: positions and arc lengths in 1/1000 px, timestamps and durations
\* in microseconds (the code's timestamp_ms times 1000, its seconds times
\* 10^6), velocities in px/s, accelerations in px/s^2.  Square roots and
\* quotients are rounded down to the unit.
\* ------------------------------------------------------------------------
USEC == 1000000                         \* microseconds per second
VELOCITY_MAX_PX_PER_SEC == 1800
ACCELERATION_MAX_PX_PER_SEC2 == 4000

MaxAnchors == 3      \* raw anchors handed to the generator: 2..MaxAnchors
MaxSplineLen == 3    \* spline points handed to the generator: 0..MaxSplineLen
MaxAnchorStep == 2   \* anchor timestamps are 0..MaxAnchorStep steps of 100 ms

AnchorStepUs == 100000
AnchorTimes == {k * AnchorStepUs : k \in 0..MaxAnchorStep}
SplineTimes == {0, AnchorStepUs}
GridPositions == {<<0, 0>>, <<3000, 4000>>}
FrameRates == {0, 20}

CPoint(x, y, t) == [x |-> x, y |-> y, timestamp_ms |-> t]

Max(a, b) == IF a >= b THEN a ELSE b
Min(a, b) == IF a <= b THEN a ELSE b

RECURSIVE SqrtSearch(_, _, _)
SqrtSearch(n, lo, hi) ==
    IF lo >= hi THEN lo
    ELSE LET mid == (lo + hi + 1) \div 2
         IN  IF mid * mid <= n THEN SqrtSearch(n, mid, hi) ELSE SqrtSearch(n, lo, mid - 1)

\* f64::sqrt, rounded down
Sqrt(n) == SqrtSearch(n, 0, Min(n, 46340))

\* (dx * dx + dy * dy).sqrt()
Distance(p, q) ==
    LET dx == q.x - p.x
        dy == q.y - p.y
    IN  Sqrt(dx * dx + dy * dy)

\* The first n entries of the table: each adds the distance from the
\* previous point to the running sum s
RECURSIVE CumPrefix(_, _)
CumPrefix(points, n) ==
    IF n = 0 THEN <<>>
    ELSE IF n = 1 THEN <<0>>
    ELSE LET prev == CumPrefix(points, n - 1)
         IN  Append(prev, prev[n - 1] + Distance(points[n - 1], points[n]))

\* cumulative_lengths pushing each segment's length instead of the running sum
cumulative_lengths_SegmentLengths(points) ==
    [i \in 1..Len(points) |-> IF i = 1 THEN 0 ELSE Distance(points[i - 1], points[i])]

cumulative_lengths(points) == CumPrefix(points, Len(points))

\* The binary search of position_at_distance over 0-based indices lo, hi
RECURSIVE Bracket(_, _, _, _)
Bracket(cum, s_query, lo, hi) ==
    IF lo + 1 < hi
    THEN LET mid == (lo + hi) \div 2
         IN  IF cum[mid + 1] <= s_query
             THEN Bracket(cum, s_query, mid, hi)
             ELSE Bracket(cum, s_query, lo, mid)
    ELSE <<lo, hi>>

\* position_at_distance without the clamp of the query
position_at_distance_NoClamp(points, cum, s_query_in) ==
    IF Len(points) = 0 THEN <<0, 0>>
    ELSE IF Len(points) = 1 THEN <<points[1].x, points[1].y>>
    ELSE LET s_query == s_query_in
             b == Bracket(cum, s_query, 0, Len(cum) - 1)
             s0 == cum[b[1] + 1]
             s1 == cum[b[2] + 1]
             p0 == points[b[1] + 1]
             p1 == points[b[2] + 1]
         IN  IF s1 - s0 = 0
             THEN <<p1.x, p1.y>>
             ELSE <<p0.x + ((s_query - s0) * (p1.x - p0.x)) \div (s1 - s0),
                    p0.y + ((s_query - s0) * (p1.y - p0.y)) \div (s1 - s0)>>

position_at_distance(points, cum, s_query_in) ==
    IF Len(points) = 0 THEN <<0, 0>>
    ELSE IF Len(points) = 1 THEN <<points[1].x, points[1].y>>
    ELSE LET s_query == Min(Max(s_query_in, 0), cum[Len(cum)])
             b == Bracket(cum, s_query, 0, Len(cum) - 1)
             s0 == cum[b[1] + 1]
             s1 == cum[b[2] + 1]
             p0 == points[b[1] + 1]
             p1 == points[b[2] + 1]
         IN  IF s1 - s0 = 0
             THEN <<p1.x, p1.y>>
             ELSE <<p0.x + ((s_query - s0) * (p1.x - p0.x)) \div (s1 - s0),
                    p0.y + ((s_query - s0) * (p1.y - p0.y)) \div (s1 - s0)>>

\* Squared distance used by the nearest-point projection
D2(sp, rp) ==
    LET dx == sp.x - rp.x
        dy == sp.y - rp.y
    IN  dx * dx + dy * dy

\* best_i: the first spline index (1-based) at minimal distance from rp
NearestIndex(spline_points, rp) ==
    CHOOSE i \in 1..Len(spline_points) :
        /\ \A j \in 1..Len(spline_points) : D2(spline_points[i], rp) <= D2(spline_points[j], rp)
        /\ \A j \in 1..(i - 1) : D2(spline_points[j], rp) > D2(spline_points[i], rp)

\* The first n entries of anchors_s after "Ensure monotonic anchors along
\* s": each projection is raised to the entry before it
RECURSIVE AnchorPrefix(_, _, _, _)
AnchorPrefix(raw_points, spline_points, cum, n) ==
    IF n = 0 THEN <<>>
    ELSE LET prev == AnchorPrefix(raw_points, spline_points, cum, n - 1)
             own == cum[NearestIndex(spline_points, raw_points[n])]
         IN  Append(prev, IF n > 1 /\ own < prev[n - 1] THEN prev[n - 1] ELSE own)

AnchorsS(raw_points, spline_points, cum) ==
    AnchorPrefix(raw_points, spline_points, cum, Len(raw_points))

\* 0.5 * a * t * t in 1/1000 px, for a in px/s^2 and t in microseconds
HalfAT2(a, t) == (((a * t) \div USEC) * t) \div 2000

\* v * t in 1/1000 px, for v in px/s and t in microseconds
VT(v, t) == (v * t) \div 1000

\* The speed profile of one segment (lib.rs:1212-1245)
Profile(ds, dt) ==
    LET amax == ACCELERATION_MAX_PX_PER_SEC2
        vmax == VELOCITY_MAX_PX_PER_SEC
        a_dt == (amax * dt) \div USEC
        disc == a_dt * a_dt - (4 * amax * ds) \div 1000
        v_solved == IF disc >= 0
                    THEN Max((a_dt - Sqrt(disc)) \div 2, 0)
                    ELSE a_dt \div 2
        v_peak == Min(v_solved, vmax)
        t_acc == (v_peak * USEC) \div amax
        t_cruise == Max(dt - t_acc - t_acc, 0)
        s_acc == HalfAT2(amax, t_acc)
        s_total == s_acc + VT(v_peak, t_cruise) + s_acc
        a_eff == IF s_total > 0 THEN (amax * ds) \div s_total ELSE amax
        v_eff == IF s_total > 0 THEN (v_peak * ds) \div s_total ELSE v_peak
        t_acc_eff == IF a_eff > 0 THEN (v_eff * USEC) \div a_eff ELSE 0
    IN  [a_eff |-> a_eff, v_eff |-> v_eff, t_acc_eff |-> t_acc_eff,
         t_cruise_eff |-> Max(dt - 2 * t_acc_eff, 0),
         s_acc_eff |-> HalfAT2(a_eff, t_acc_eff)]

\* s_rel at elapsed time t (lib.rs:1249-1259)
SRel(pr, t) ==
    IF t <= pr.t_acc_eff
    THEN HalfAT2(pr.a_eff, t)
    ELSE IF t <= pr.t_acc_eff + pr.t_cruise_eff
    THEN pr.s_acc_eff + VT(pr.v_eff, t - pr.t_acc_eff)
    ELSE LET td == t - (pr.t_acc_eff + pr.t_cruise_eff)
             s_before == pr.s_acc_eff + VT(pr.v_eff, pr.t_cruise_eff)
         IN  s_before + (VT(pr.v_eff, td) - HalfAT2(pr.a_eff, td))

\* The `while t < dt` loop of one segment
RECURSIVE SegmentRun(_, _, _, _, _, _, _, _, _)
SegmentRun(spline_points, cum, pr, s0, ds, t0, dt, dt_frame, t) ==
    IF t < dt
    THEN LET s_abs == s0 + Min(SRel(pr, t), ds)
             xy == position_at_distance(spline_points, cum, s_abs)
         IN  <<CPoint(xy[1], xy[2], t0 + t)>>
                \o SegmentRun(spline_points, cum, pr, s0, ds, t0, dt, dt_frame, t + dt_frame)
    ELSE <<>>

\* The segment without the exact endpoint after the loop
SegmentTargets_NoEndpoint(raw_points, spline_points, cum, anchors_s, dt_frame, seg) ==
    LET s0 == anchors_s[seg]
        s1 == anchors_s[seg + 1]
        t0 == raw_points[seg].timestamp_ms
        t1 == raw_points[seg + 1].timestamp_ms
        ds == Max(s1 - s0, 0)
        dt == Max(t1 - t0, 1)
    IN  SegmentRun(spline_points, cum, Profile(ds, dt), s0, ds, t0, dt, dt_frame, 0)

\* One iteration of `for seg in 0..(anchors_s.len() - 1)`; seg is 1-based
SegmentTargets(raw_points, spline_points, cum, anchors_s, dt_frame, seg) ==
    LET s0 == anchors_s[seg]
        s1 == anchors_s[seg + 1]
        t0 == raw_points[seg].timestamp_ms
        t1 == raw_points[seg + 1].timestamp_ms
        ds == Max(s1 - s0, 0)
        dt == Max(t1 - t0, 1)
        end == position_at_distance(spline_points, cum, s1)
    IN  SegmentRun(spline_points, cum, Profile(ds, dt), s0, ds, t0, dt, dt_frame, 0)
            \o <<CPoint(end[1], end[2], t1)>>

RECURSIVE SegmentsFrom(_, _, _, _, _, _)
SegmentsFrom(raw_points, spline_points, cum, anchors_s, dt_frame, seg) ==
    IF seg > Len(anchors_s) - 1 THEN <<>>
    ELSE SegmentTargets(raw_points, spline_points, cum, anchors_s, dt_frame, seg)
            \o SegmentsFrom(raw_points, spline_points, cum, anchors_s, dt_frame, seg + 1)

\* The generator takes its kinematic path: none of the early returns applies
KinematicPath(raw_points, spline_points) ==
    /\ Len(raw_points) >= 2
    /\ Len(spline_points) >= 2
    /\ cumulative_lengths(spline_points)[Len(spline_points)] > 0

generate_targets_with_click_constraints(raw_points, spline_points, frame_rate) ==
    IF Len(raw_points) < 2 \/ Len(spline_points) < 2
    THEN spline_points
    ELSE LET fps == IF frame_rate > 0 THEN frame_rate ELSE 60
             dt_frame == USEC \div fps
             cum == cumulative_lengths(spline_points)
             total_s == cum[Len(cum)]
         IN  IF total_s <= 0
             THEN spline_points
             ELSE SegmentsFrom(raw_points, spline_points, cum,
                               AnchorsS(raw_points, spline_points, cum), dt_frame, 1)

TimesNonDecreasing(s) ==
    \A i \in 1..(Len(s) - 1) : s[i].timestamp_ms <= s[i + 1].timestamp_ms

\* Raw anchors: grid positions at non-decreasing timestamps
RawAnchors ==
    UNION { { s \in [1..n -> { CPoint(g[1], g[2], t) : g \in GridPositions, t \in AnchorTimes }] :
                TimesNonDecreasing(s) } : n \in 2..MaxAnchors }

\* Spline points: grid positions carrying any timestamp.  The spline sampler
\* interpolates timestamps with the same cubic blend as positions, which can
\* overshoot, so the timestamps along a spline are not ordered in general.
Splines ==
    UNION { [1..n -> { CPoint(g[1], g[2], t) : g \in GridPositions, t \in SplineTimes }] :
                n \in 0..MaxSplineLen }

GenerateTargets ==
    /\ g_pc = "input"
    /\ g_targets' = generate_targets_with_click_constraints(g_raw, g_spline, g_fps)
    /\ g_pc' = "generated"
    /\ UNCHANGED <<g_raw, g_spline, g_fps, procVars, alignVars, hermiteVars, extVars>>

\* ------------------------------------------------------------------------
\* render_video_with_overlay: the per-frame loop, the two flushes and the
\* trailer.  The input time base is 1/2000 s, so a pts is a time in half
\* milliseconds; frame times handed to the aligner and the oracle are in the
\* same unit (TicksPerMs per millisecond).  The decoder emits frames in
\* presentation order; whether a packet yields a frame at once or the frame
\* is held back until send_eof is the decoder's choice.
\* ------------------------------------------------------------------------
MaxRenderFrames == 3        \* frames the decoder emits in one run
MaxRenderPathLen == 2       \* PathPoints in the smoothed path of a run

InputTimeBaseDen == 2000    \* input_time_base = 1/2000
FramePtsStep == 2           \* pts distance of consecutive frames (1 ms)
ShiftD == 1234 * TicksPerMs + 1    \* Scenario D: +1234.5 ms, in pts units
RenderFrameRates == { <<0, 1>>, <<1000, 1>>, <<8000, 1>> }
RenderPaths == { q \in Paths : Len(q) <= MaxRenderPathLen }

\* a / b rounded to the nearest integer, halves away from zero
\* (av_rescale_q's AV_ROUND_NEAR_INF), for b > 0
RoundDiv(a, b) ==
    IF a >= 0 THEN (2 * a + b) \div (2 * b) ELSE 0 - ((2 * (0 - a) + b) \div (2 * b))

\* a rescaled from the time base fnum/fden to the time base tnum/tden
Rescale(a, fnum, fden, tnum, tden) == RoundDiv(a * fnum * tden, fden * tnum)

\* `x as i32` of a position given in 1/1000 px: truncation toward zero
TruncPx(v) == IF v >= 0 THEN v \div 1000 ELSE 0 - ((0 - v) \div 1000)

\* frame_duration_pts (lib.rs:624-631), encoder_time_base = input_time_base
FrameDurationPts(frame_rate) ==
    IF frame_rate[1] > 0 /\ frame_rate[2] > 0
    THEN Rescale(1, frame_rate[2], frame_rate[1], 1, InputTimeBaseDen)
    ELSE 1

\* fallback_ms_from_frame_index, rounded down to half a millisecond
FallbackTicksFromFrameIndex(frame_rate, idx) ==
    IF frame_rate[1] > 0 /\ frame_rate[2] > 0
    THEN (idx * 1000 * frame_rate[2] * TicksPerMs) \div frame_rate[1]
    ELSE (idx * 1000 * TicksPerMs) \div 60

\* frame_ms_unaligned: the pts rescaled to whole milliseconds, or the fallback
FrameTicksUnaligned(frame, frame_rate, idx) ==
    IF frame.pts.is_some
    THEN Rescale(frame.pts.val, 1, InputTimeBaseDen, 1, 1000) * TicksPerMs
    ELSE FallbackTicksFromFrameIndex(frame_rate, idx)

\* smoothed_path.first().map(|p| p.timestamp_ms).unwrap_or(0.0)
PathStartTicks(path) == IF Len(path) > 0 THEN path[1].timestamp_ms * TicksPerMs ELSE 0

\* The path with its times in half milliseconds: velocities are halved with
\* it, so that velocity times duration is unchanged (the palette's
\* velocities are even).
PathInTicks(path) ==
    [i \in 1..Len(path) |->
        [x |-> path[i].x, y |-> path[i].y,
         timestamp_ms |-> path[i].timestamp_ms * TicksPerMs,
         vx |-> path[i].vx \div TicksPerMs, vy |-> path[i].vy \div TicksPerMs]]

\* The alignment calls of the packet loop, without add_sample
AlignFrame_NoAddSample(st, frame_ticks, path_start, in_packet_loop) ==
    GetOffsetOp(st, path_start)

\* lib.rs:671-673 in the packet loop (add_sample, then get_offset) and
\* lib.rs:759 in the decoder flush (get_offset only)
AlignFrame(st, frame_ticks, path_start, in_packet_loop) ==
    IF in_packet_loop
    THEN GetOffsetOp(AddSampleOp(st, frame_ticks, path_start).st, path_start)
    ELSE GetOffsetOp(st, path_start)

\* The overlay step with the overlay skipped on a clamped position
OverlayCall_SkipClamped(pos) ==
    [drawn |-> pos.some /\ ~pos.clamped, x_pos |-> TruncPx(pos.x), y_pos |-> TruncPx(pos.y),
     clamped |-> pos.clamped]

\* if let Some(pos) = find_position_for_timestamp_hermite(..) { overlay(..) }
OverlayCall(pos) ==
    [drawn |-> pos.some, x_pos |-> TruncPx(pos.x), y_pos |-> TruncPx(pos.y),
     clamped |-> pos.clamped]

\* An entry of the call log: n is the frame id of a send_frame and the
\* number of packets written so far for the other calls
Event(ev, n) == [ev |-> ev, n |-> n]

\* The next frame the decoder emits: the pts advance by FramePtsStep from
\* render_cfg.first_pts; a frame may carry no timestamp.
NextDecoded(has_ts) ==
    [id |-> Len(decoded) + 1,
     pts |-> IF has_ts THEN Some(render_cfg.first_pts + Len(decoded) * FramePtsStep)
             ELSE None]

\* One decoded frame taken through alignment, oracle, overlay and encoder
\* (lib.rs:663-735 and 753-800).  drained is the number of packets the
\* encoder hands back after this send_frame.
CompositeAndSend(frame, in_packet_loop, drained) ==
    LET path_start == PathStartTicks(smoothed_path)
        frame_ticks == FrameTicksUnaligned(frame, render_cfg.frame_rate, frame_number)
        al == AlignFrame(alignment, frame_ticks, path_start, in_packet_loop)
        aligned == frame_ticks + al.ret
        pos == FindPositionHermite(PathInTicks(smoothed_path), aligned)
        ov == OverlayCall(pos)
    IN  /\ alignment' = al.st
        /\ decoded' = Append(decoded, frame)
        /\ sent' = Append(sent, [id |-> frame.id, pts |-> cur_pts, aligned |-> aligned,
                                 offset |-> al.ret, overlay |-> ov,
                                 in_packet_loop |-> in_packet_loop])
        /\ written' = written + drained
        /\ events' = Append(events, Event("send_frame", frame.id))
        /\ cur_pts' = cur_pts + FrameDurationPts(render_cfg.frame_rate)
        /\ frame_number' = frame_number + 1

\* One frame received inside the packet loop (lib.rs:658-747)
PacketLoopFrame ==
    /\ render_pc = "packets"
    /\ Len(decoded) < MaxRenderFrames
    /\ \E has_ts \in BOOLEAN, drained \in 0..1 :
          /\ drained <= Len(sent) + 1 - written
          /\ CompositeAndSend(NextDecoded(has_ts), TRUE, drained)
    /\ processed_frames' = processed_frames + 1
    /\ progress' = IF render_cfg.has_callback /\ render_cfg.total_frames > 0
                   THEN Append(progress,
                               RenderProgress(processed_frames + 1, render_cfg.total_frames))
                   ELSE progress
    /\ UNCHANGED <<render_pc, render_cfg, smoothed_path,
                   pc, args, ret, stages, smooth_ok, align_call, hermiteVars, targetVars, notRenderVars>>

\* The packet iterator is exhausted: decoder.send_eof() (lib.rs:750)
DecoderEof ==
    /\ render_pc = "packets"
    /\ render_pc' = "flush_decoder"
    /\ events' = Append(events, Event("decoder_eof", written))
    /\ UNCHANGED <<render_cfg, smoothed_path, decoded, sent, written, cur_pts,
                   procVars, alignVars, hermiteVars, targetVars, notRenderVars>>

\* One frame received after send_eof (lib.rs:751-801): no add_sample, no
\* processed_frames, no progress callback
DecoderFlushFrame ==
    /\ render_pc = "flush_decoder"
    /\ Len(decoded) < MaxRenderFrames
    /\ \E has_ts \in BOOLEAN, drained \in 0..1 :
          /\ drained <= Len(sent) + 1 - written
          /\ CompositeAndSend(NextDecoded(has_ts), FALSE, drained)
    /\ UNCHANGED <<render_pc, render_cfg, smoothed_path, processed_frames, progress,
                   pc, args, ret, stages, smooth_ok, align_call, hermiteVars, targetVars, notRenderVars>>

\* EncoderEof without the drain loop
EncoderEof_NoDrain ==
    /\ render_pc = "flush_decoder"
    /\ render_pc' = "flush_encoder"
    /\ events' = Append(events, Event("encoder_eof", written))
    /\ UNCHANGED <<render_cfg, smoothed_path, decoded, sent, written, cur_pts,
                   procVars, alignVars, hermiteVars, targetVars, notRenderVars>>

\* encoder.send_eof() and the drain loop (lib.rs:804-816): after EOF the
\* encoder hands back every packet it still holds
EncoderEof ==
    /\ render_pc = "flush_decoder"
    /\ render_pc' = "flush_encoder"
    /\ events' = Append(events, Event("encoder_eof", written))
    /\ written' = Len(sent)
    /\ UNCHANGED <<render_cfg, smoothed_path, decoded, sent, cur_pts,
                   procVars, alignVars, hermiteVars, targetVars, notRenderVars>>

\* octx.write_trailer() and Ok(()) (lib.rs:818-825)
WriteTrailer ==
    /\ render_pc = "flush_encoder"
    /\ render_pc' = "ok"
    /\ events' = Append(events, Event("trailer", written))
    /\ UNCHANGED <<render_cfg, smoothed_path, decoded, sent, written, cur_pts,
                   procVars, alignVars, hermiteVars, targetVars, notRenderVars>>

\* Any `?` of the loop, the flushes or the trailer returns Err; when it is
\* one between receive_frame and send_frame (a scaler run, send_frame
\* itself), the frame just received is dropped.
RenderAbort ==
    /\ render_pc \in {"packets", "flush_decoder", "flush_encoder"}
    /\ render_pc' = "err"
    /\ \E frame_lost \in BOOLEAN :
          decoded' = IF /\ frame_lost
                        /\ render_pc \in {"packets", "flush_decoder"}
                        /\ Len(decoded) < MaxRenderFrames
                     THEN Append(decoded, NextDecoded(TRUE))
                     ELSE decoded
    /\ UNCHANGED <<render_cfg, smoothed_path, sent, written, cur_pts, events,
                   procVars, alignVars, hermiteVars, targetVars, notRenderVars>>

RenderNext ==
    \/ PacketLoopFrame
    \/ DecoderEof
    \/ DecoderFlushFrame
    \/ EncoderEof
    \/ WriteTrailer
    \/ RenderAbort

\* ------------------------------------------------------------------------
\* derive_spring_params.  responsiveness and smoothness are in thousandths,
\* the settling time in milliseconds, the damping ratio zeta in thousandths,
\* omega_n in 1/100 rad/s, k and c in tenths; quotients are rounded down.
\* ------------------------------------------------------------------------
RESPONSIVENESS_MAX_SETTLING_SEC == 60      \* 0.06 s
RESPONSIVENESS_MIN_SETTLING_SEC == 400     \* 0.40 s
SMOOTHNESS_MIN_DAMPING == 700              \* 0.7
SMOOTHNESS_MAX_DAMPING == 1500             \* 1.5
SPRING_MASS_DEFAULT == 1

ParamOvershoot == 2     \* inputs reach this many steps below 0.0 and above 1.0
ParamStep == 100        \* one input step, in thousandths
ParamValues == { k * ParamStep : k \in (0 - ParamOvershoot)..(10 + ParamOvershoot) }

\* f32::clamp / f64::clamp
Clamp(v, lo, hi) == IF v < lo THEN lo ELSE IF v > hi THEN hi ELSE v

\* lib.rs:69-76: MIN + (1 - r) * (MIN - MAX), clamped to [MAX, MIN]
SettlingTime(responsiveness) ==
    Clamp(RESPONSIVENESS_MIN_SETTLING_SEC
            + (((1000 - Clamp(responsiveness, 0, 1000))
                  * (RESPONSIVENESS_MIN_SETTLING_SEC - RESPONSIVENESS_MAX_SETTLING_SEC))
               \div 1000),
          RESPONSIVENESS_MAX_SETTLING_SEC, RESPONSIVENESS_MIN_SETTLING_SEC)

\* zeta = MIN_DAMPING + smoothness * (MAX_DAMPING - MIN_DAMPING)
DampingRatio(smoothness) ==
    SMOOTHNESS_MIN_DAMPING
      + ((Clamp(smoothness, 0, 1000) * (SMOOTHNESS_MAX_DAMPING - SMOOTHNESS_MIN_DAMPING))
         \div 1000)

\* omega_n = 4 / (zeta * settling_time), in 1/100 rad/s
NaturalFrequency(zeta, settling_time) == 400000000 \div (zeta * settling_time)

derive_spring_params(responsiveness, smoothness) ==
    LET settling_time == SettlingTime(responsiveness)
        zeta == DampingRatio(smoothness)
        m == SPRING_MASS_DEFAULT
        omega_n == NaturalFrequency(zeta, settling_time)
    IN  [done |-> TRUE,
         settling_time |-> settling_time,
         zeta |-> zeta,
         omega_n |-> omega_n,
         k |-> ((omega_n * omega_n) \div 1000) * m,
         c |-> ((2 * zeta * omega_n) \div 10000) * m,
         m |-> m]

NoParams == [done |-> FALSE, settling_time |-> 0, zeta |-> 0, omega_n |-> 0,
             k |-> 0, c |-> 0, m |-> 0]
IdleParams == [responsiveness |-> 0, smoothness |-> 0]

DeriveSpringParams ==
    /\ ~p_out.done
    /\ p_out' = derive_spring_params(p_in.responsiveness, p_in.smoothness)
    /\ UNCHANGED <<p_in, notParamVars>>

\* ------------------------------------------------------------------------
\* spring_follow_path.  Timestamps and durations are in units of 0.1 ms
\* (SpringTimeUnit per second), positions in 1/1000 px, velocities in
\* 1/1000 px per second; k, c and omega_n are in the units of
\* derive_spring_params.  Quotients are rounded down.
\* ------------------------------------------------------------------------
MaxTargets == 3             \* targets handed to the follower

SpringTimeUnit == 10000     \* time units per second
SpringTimes == {0, 500, 1000}
SpringFrameRates == {0, 240}
SpringSmoothness == {0, 1000}
SpringTargets ==
    UNION { [1..n -> { CPoint(q[1], q[2], t) : q \in GridPositions, t \in SpringTimes }] :
              n \in 0..MaxTargets }

\* Two targets separated by one long gap: 5 s, and the gaps next to the
\* sub-step limit 2/fps at 240 fps (8.3 ms and 8.4 ms)
LongGapTargets ==
    { <<CPoint(q0[1], q0[2], 0), CPoint(q1[1], q1[2], gap)>> :
        q0 \in GridPositions, q1 \in GridPositions, gap \in {83, 84, 5 * SpringTimeUnit} }

CeilDiv(a, b) == (a + b - 1) \div b

\* The sub-step count from the frame interval alone
SubstepCount_BaseOnly(dt, frame_rate, omega_n) ==
    LET fps == IF frame_rate > 0 THEN frame_rate ELSE 60
    IN  IF dt * fps > 2 * SpringTimeUnit
        THEN CeilDiv(dt * fps, 2 * SpringTimeUnit)
        ELSE 1

\* fps and the sub-step count of one target (lib.rs:1032-1037, 1057-1065);
\* dt / max_dt = dt * fps / 2
SubstepCount(dt, frame_rate, omega_n) ==
    LET fps == IF frame_rate > 0 THEN frame_rate ELSE 60
        base_sub == IF dt * fps > 2 * SpringTimeUnit
                    THEN CeilDiv(dt * fps, 2 * SpringTimeUnit)
                    ELSE 1
        freq_sub == CeilDiv(dt * omega_n * 8, 100 * SpringTimeUnit)
    IN  Max(base_sub, Max(freq_sub, 1))

\* One sub-step of the semi-implicit Euler integration (lib.rs:1067-1080)
SpringSubstep(st, target, p, h) ==
    LET dx == target.x - st.pos_x
        dy == target.y - st.pos_y
        ax == (p.k * dx - p.c * st.vel_x) \div (10 * p.m)
        ay == (p.k * dy - p.c * st.vel_y) \div (10 * p.m)
        vel_x == st.vel_x + ((ax * h) \div SpringTimeUnit)
        vel_y == st.vel_y + ((ay * h) \div SpringTimeUnit)
    IN  [pos_x |-> st.pos_x + ((vel_x * h) \div SpringTimeUnit),
         pos_y |-> st.pos_y + ((vel_y * h) \div SpringTimeUnit),
         vel_x |-> vel_x, vel_y |-> vel_y]

\* `for _ in 0..substeps`: n sub-steps in a row.  They are evaluated as two
\* halves, the first one before the second is entered (the test on its
\* value), so that the evaluation depth stays logarithmic in n.
RECURSIVE SpringSubsteps(_, _, _, _, _)
SpringSubsteps(st, target, p, h, n) ==
    IF n = 0 THEN st
    ELSE IF n = 1 THEN SpringSubstep(st, target, p, h)
    ELSE LET half == SpringSubsteps(st, target, p, h, n \div 2)
         IN  IF half.pos_x = half.pos_x
             THEN SpringSubsteps(half, target, p, h, n - (n \div 2))
             ELSE st

PathPointWithVelocity(st, t) ==
    [x |-> st.pos_x, y |-> st.pos_y, timestamp_ms |-> t, vx |-> st.vel_x, vy |-> st.vel_y]

\* The follower at rest at the origin instead of at the first target
SpringStart_AtOrigin(points) ==
    [pos_x |-> 0, pos_y |-> 0, vel_x |-> 0, vel_y |-> 0]

\* State initialization at the first target point (lib.rs:1046-1051)
SpringStart(points) ==
    [pos_x |-> points[1].x, pos_y |-> points[1].y, vel_x |-> 0, vel_y |-> 0]

\* The loop over targets i..len (lib.rs:1055-1092); acc collects the output
\* PathPoints and, per target, the time gap and the sub-steps taken.
RECURSIVE SpringRun(_, _, _, _, _, _, _)
SpringRun(points, frame_rate, p, st, prev_t, i, acc) ==
    IF i > Len(points) THEN acc
    ELSE LET target == points[i]
             dt == Max(target.timestamp_ms - prev_t, 0)
             substeps == SubstepCount(dt, frame_rate, p.omega_n)
             h == dt \div substeps
             st2 == SpringSubsteps(st, target, p, h, substeps)
         IN  SpringRun(points, frame_rate, p, st2, target.timestamp_ms, i + 1,
                       [out |-> Append(acc.out, PathPointWithVelocity(st2, target.timestamp_ms)),
                        steps |-> Append(acc.steps,
                                         [dt |-> dt, substeps |-> substeps, h |-> h])])

\* spring_follow_path without the push of the initial point
spring_follow_path_NoInitialPoint(points, config) ==
    IF points = <<>> THEN [out |-> <<>>, steps |-> <<>>]
    ELSE LET p == derive_spring_params(config.responsiveness, config.smoothness)
             st == SpringStart(points)
         IN  SpringRun(points, config.frame_rate, p, st, points[1].timestamp_ms, 2,
                       [out |-> <<>>, steps |-> <<>>])

spring_follow_path(points, config) ==
    IF points = <<>> THEN [out |-> <<>>, steps |-> <<>>]
    ELSE LET p == derive_spring_params(config.responsiveness, config.smoothness)
             st == SpringStart(points)
         IN  SpringRun(points, config.frame_rate, p, st, points[1].timestamp_ms, 2,
                       [out |-> <<PathPointWithVelocity(st, points[1].timestamp_ms)>>,
                        steps |-> <<>>])

SpringFollow ==
    /\ s_pc = "input"
    /\ LET r == spring_follow_path(s_points, s_config)
       IN  s_out' = r.out /\ s_steps' = r.steps
    /\ s_pc' = "done"
    /\ UNCHANGED <<s_points, s_config, notSpringVars>>

\* ------------------------------------------------------------------------
\* catmull_rom_spline.  Positions are in 1/1000 px, timestamps in whole
\* milliseconds, alpha in thousandths, knot values t_0..t_3 in thousandths.
\* The sample parameters of linspace are kept exact: the i-th is
\* (t_1 * den + i * (t_2 - t_1)) / den with den = num_points - 1, and a
\* parameter is carried as its numerator tv over den.  Interpolated
\* coordinates are rounded down to their unit.
\* ------------------------------------------------------------------------
MaxNumPoints == 3           \* num_points ranges over 0..MaxNumPoints

AlphaValues == {0, 500, 1000}
SplinePositions == {<<0, 0>>, <<3000, 4000>>, <<6000, 0>>}
SplineQuads ==
    { <<CPoint(q0[1], q0[2], ta), CPoint(q1[1], q1[2], 100),
        CPoint(q2[1], q2[2], 200), CPoint(q3[1], q3[2], tb)>> :
          q0 \in SplinePositions, q1 \in SplinePositions,
          q2 \in SplinePositions, q3 \in SplinePositions,
          ta \in {0, 100}, tb \in {200, 300} }

\* t_i + distance^alpha for alpha 0, 0.5 and 1 (0^0 is 1 in powf)
calculate_t_j(t_i, p_i, p_j, alpha) ==
    t_i + (IF alpha = 0 THEN 1000
           ELSE IF alpha = 1000 THEN Distance(p_i, p_j)
           ELSE Sqrt(Distance(p_i, p_j) * 1000))

\* interpolate_points with the weights of the degenerate branch swapped
interpolate_points_EndOnTie(t_end, t_start, tv, den, p_start, p_end) ==
    IF t_end = t_start
    THEN IF tv <= t_start * den THEN p_end ELSE p_start
    ELSE LET w1 == t_end * den - tv
             w2 == tv - t_start * den
             wd == (t_end - t_start) * den
         IN  CPoint((w1 * p_start.x + w2 * p_end.x) \div wd,
                    (w1 * p_start.y + w2 * p_end.y) \div wd,
                    (w1 * p_start.timestamp_ms + w2 * p_end.timestamp_ms) \div wd)

\* interpolate_points(t_end, t_start, t, p_start, p_end) with t = tv / den
interpolate_points(t_end, t_start, tv, den, p_start, p_end) ==
    IF t_end = t_start
    THEN IF tv <= t_start * den THEN p_start ELSE p_end
    ELSE LET w1 == t_end * den - tv
             w2 == tv - t_start * den
             wd == (t_end - t_start) * den
         IN  CPoint((w1 * p_start.x + w2 * p_end.x) \div wd,
                    (w1 * p_start.y + w2 * p_end.y) \div wd,
                    (w1 * p_start.timestamp_ms + w2 * p_end.timestamp_ms) \div wd)

\* linspace(start, end, num_points) as the numerators over LinspaceDen
LinspaceDen(num_points) == IF num_points >= 2 THEN num_points - 1 ELSE 1
linspace(start, end, num_points) ==
    [i \in 1..num_points |-> start * LinspaceDen(num_points) + (i - 1) * (end - start)]

\* The body of the sampling loop for one parameter
SplinePoint(p0, p1, p2, p3, t_0, t_1, t_2, t_3, tv, den) ==
    LET a_1 == interpolate_points(t_1, t_0, tv, den, p0, p1)
        a_2 == interpolate_points(t_2, t_1, tv, den, p1, p2)
        a_3 == interpolate_points(t_3, t_2, tv, den, p2, p3)
        b_1 == interpolate_points(t_2, t_0, tv, den, a_1, a_2)
        b_2 == interpolate_points(t_3, t_1, tv, den, a_2, a_3)
    IN  interpolate_points(t_2, t_1, tv, den, b_1, b_2)

catmull_rom_spline(p0, p1, p2, p3, num_points, alpha) ==
    LET t_0 == 0
        t_1 == calculate_t_j(t_0, p0, p1, alpha)
        t_2 == calculate_t_j(t_1, p1, p2, alpha)
        t_3 == calculate_t_j(t_2, p2, p3, alpha)
        t_values == linspace(t_1, t_2, num_points)
    IN  [i \in 1..num_points |->
            SplinePoint(p0, p1, p2, p3, t_0, t_1, t_2, t_3,
                        t_values[i], LinspaceDen(num_points))]

\* cr_in: [quad |-> <<p0, p1, p2, p3>>, num_points, alpha]
CatmullRomSpline ==
    /\ ~cr_out.done
    /\ cr_out' = [done |-> TRUE,
                  points |-> catmull_rom_spline(cr_in.quad[1], cr_in.quad[2], cr_in.quad[3],
                                                cr_in.quad[4], cr_in.num_points, cr_in.alpha)]
    /\ UNCHANGED <<cr_in, notSplineVars>>

\* ------------------------------------------------------------------------
\* The compositors: composite_cursor_subpixel (renderer.rs, RGBA frames) and
\* overlay_image_on_rgb_frame (lib.rs, RGB24 frames).  Only the addresses
\* written matter here: c_out.writes is the set of byte offsets into the
\* frame buffer that a call stores to.  Positions are in half pixels (x2 is
\* twice x), so that positions such as W - 16.5 are representable; the
\* frame buffer is data(0) of the frame, stride * height bytes, with a row
\* stride of the packed width plus the row padding.
\* ------------------------------------------------------------------------
MaxFrameSide == 3       \* frame width and height range over 1..MaxFrameSide
MaxSpriteSide == 2      \* sprite width and height range over 1..MaxSpriteSide

RowPaddings == {0, 4}   \* bytes of padding at the end of a frame row
SpriteAlphas == {"opaque", "corner_clear"}

CompInputs ==
    UNION { [frame_width : {fw}, frame_height : {fh}, padding : RowPaddings,
             width : {sw}, height : {sh}, alpha : SpriteAlphas,
             x2 : (0 - 2 * sw - 2)..(2 * fw + 2), y2 : (0 - 2 * sh - 2)..(2 * fh + 2)] :
              fw \in 1..MaxFrameSide, fh \in 1..MaxFrameSide,
              sw \in 1..MaxSpriteSide, sh \in 1..MaxSpriteSide }

\* The A byte of texel (cx, cy) of the sprite
TexelAlpha(in, cx, cy) ==
    IF in.alpha = "corner_clear" /\ cx = 0 /\ cy = 0 THEN 0 ELSE 255

\* sample_bilinear_fast, alpha channel: src2x and src2y are twice the sample
\* position; the result is [some, a]
SampleAlpha(in, src2x, src2y) ==
    IF \/ src2x < 0 - 1 \/ src2y < 0 - 1
       \/ src2x >= 2 * in.width - 1 \/ src2y >= 2 * in.height - 1
    THEN [some |-> FALSE, a |-> 0]
    ELSE LET tl_x == src2x \div 2
             tl_y == src2y \div 2
             u == src2x - 2 * tl_x
             v == src2y - 2 * tl_y
             px(cx, cy) == TexelAlpha(in, Clamp(cx, 0, in.width - 1),
                                          Clamp(cy, 0, in.height - 1))
             top == px(tl_x, tl_y) * (2 - u) + px(tl_x + 1, tl_y) * u
             bot == px(tl_x, tl_y + 1) * (2 - u) + px(tl_x + 1, tl_y + 1) * u
         IN  [some |-> TRUE, a |-> (top * (2 - v) + bot * v) \div 4]

\* composite_cursor_subpixel(frame, frame_width, _frame_height, cursor, x, y):
\* the byte offsets it stores to
SubpixelWrites(in) ==
    LET frame_len == (in.frame_width * 4 + in.padding) * in.frame_height
        start_x == in.x2 \div 2
        start_y == in.y2 \div 2
        draw_start_x == Max(start_x, 0)
        draw_start_y == Max(start_y, 0)
        draw_end_x == Min(start_x + in.width + 1, in.frame_width)
        draw_end_y == Min(start_y + in.height + 1, frame_len \div (in.frame_width * 4))
    IN  UNION { LET smp == SampleAlpha(in, 2 * dx - in.x2, 2 * dy - in.y2)
                    idx == (dy * in.frame_width + dx) * 4
                IN  IF smp.some /\ smp.a > 0 THEN {idx, idx + 1, idx + 2} ELSE {} :
                  dx \in draw_start_x..(draw_end_x - 1),
                  dy \in draw_start_y..(draw_end_y - 1) }

\* `pos.0 as i32` of a position given in half pixels
TruncHalf(v2) == IF v2 >= 0 THEN v2 \div 2 ELSE 0 - ((0 - v2) \div 2)

\* overlay_image_on_rgb_frame(frame, overlay, x_pos, y_pos): the byte
\* offsets it stores to
OverlayWrites(in) ==
    LET stride == in.frame_width * 3 + in.padding
        frame_len == stride * in.frame_height
        x_pos == TruncHalf(in.x2)
        y_pos == TruncHalf(in.y2)
    IN  UNION { LET x_frame == x_pos + x_overlay
                    y_frame == y_pos + y_overlay
                    frame_idx == y_frame * stride + x_frame * 3
                IN  IF /\ x_frame >= 0 /\ x_frame < in.frame_width
                       /\ y_frame >= 0 /\ y_frame < in.frame_height
                       /\ TexelAlpha(in, x_overlay, y_overlay) > 0
                       /\ frame_idx + 2 < frame_len
                    THEN {frame_idx, frame_idx + 1, frame_idx + 2}
                    ELSE {} :
                  x_overlay \in 0..(in.width - 1), y_overlay \in 0..(in.height - 1) }

CompositeCursorSubpixel ==
    /\ ~c_out.done
    /\ c_out' = [done |-> TRUE, op |-> "composite_cursor_subpixel", bytes_per_pixel |-> 4,
                 writes |-> SubpixelWrites(c_in)]
    /\ UNCHANGED <<c_in, notCompVars>>

OverlayImageOnRgbFrame ==
    /\ ~c_out.done
    /\ c_out' = [done |-> TRUE, op |-> "overlay_image_on_rgb_frame", bytes_per_pixel |-> 3,
                 writes |-> OverlayWrites(c_in)]
    /\ UNCHANGED <<c_in, notCompVars>>

CompNext == CompositeCursorSubpixel \/ OverlayImageOnRgbFrame

\* ------------------------------------------------------------------------
\* cumulative_lengths applied to an arbitrary point sequence.
\* ------------------------------------------------------------------------
MaxArcPoints == 4       \* longest point sequence given to cumulative_lengths

ArcPositions == {<<0, 0>>, <<3, 4>>, <<10, 0>>}

RECURSIVE ArcSeqs(_)
ArcSeqs(n) ==
    IF n = 0 THEN {<<>>}
    ELSE LET shorter == ArcSeqs(n - 1)
         IN  shorter \cup { Append(q, CPoint(pos[1], pos[2], 100 * Len(q))) :
                              q \in {r \in shorter : Len(r) = n - 1}, pos \in ArcPositions }

CumulativeLengths ==
    /\ ~a_cum.done
    /\ a_cum' = [done |-> TRUE, cum |-> cumulative_lengths(a_points)]
    /\ UNCHANGED <<a_points, notArcVars>>

\* ------------------------------------------------------------------------
\* smooth_cursor_path_with_params: frame counts, the extended control
\* sequence, the chained spline, the targets and the spring filter.  Raw
\* samples and spline points carry timestamps in whole milliseconds and
\* positions in 1/1000 px (the units of catmull_rom_spline); they are
\* converted to the generator's microseconds and to the follower's 0.1 ms
\* where those are called.
\* ------------------------------------------------------------------------
MaxRawSamples == 4          \* raw samples handed to the stage: 0..MaxRawSamples

SampleGapsMs == {0, 10, 50}
SmoothFrameRates == {0 - 60, 0, 60}

RECURSIVE RawSamples(_)
RawSamples(n) ==
    IF n = 0 THEN {<<>>}
    ELSE LET shorter == RawSamples(n - 1)
         IN  shorter \cup
             { Append(q, CPoint(g[1], g[2],
                                IF q = <<>> THEN 0 ELSE q[Len(q)].timestamp_ms + gap)) :
                 q \in {r \in shorter : Len(r) = n - 1},
                 g \in GridPositions, gap \in SampleGapsMs }

\* calculate_frames_between_points without the minimum of one frame
calculate_frames_between_points_NoMinimum(cursor_points, frame_rate) ==
    [i \in 1..(IF Len(cursor_points) >= 1 THEN Len(cursor_points) - 1 ELSE 0) |->
        LET time_delta_ms == cursor_points[i + 1].timestamp_ms - cursor_points[i].timestamp_ms
        IN  Max(RoundDiv(time_delta_ms * frame_rate, 1000), 0)]

\* calculate_frames_between_points: (dt_s * frame_rate).round() as usize,
\* at least 1; a negative product saturates to 0 in the cast
calculate_frames_between_points(cursor_points, frame_rate) ==
    [i \in 1..(IF Len(cursor_points) >= 1 THEN Len(cursor_points) - 1 ELSE 0) |->
        LET time_delta_ms == cursor_points[i + 1].timestamp_ms - cursor_points[i].timestamp_ms
        IN  Max(Max(RoundDiv(time_delta_ms * frame_rate, 1000), 0), 1)]

\* ext with the last sample twice at the end and no copy of the first
ExtendedControls_NoLeadingCopy(n) == [i \in 1..n |-> i] \o <<n, n>>

\* ext as indices (1-based) into the raw samples, for n >= 1 samples:
\* the first sample, all samples, the last sample
ExtendedControls(n) == <<1>> \o [i \in 1..n |-> i] \o <<n>>

\* all_spline_points after the segments 1..seg of the loop (lib.rs:387-423)
RECURSIVE SplineChain(_, _, _, _)
SplineChain(ext, frame_counts, alpha, seg) ==
    IF seg = 0 THEN <<>>
    ELSE LET before == SplineChain(ext, frame_counts, alpha, seg - 1)
             num_points == frame_counts[seg]
             segment_points == catmull_rom_spline(ext[seg], ext[seg + 1], ext[seg + 2],
                                                  ext[seg + 3], num_points, alpha)
         IN  IF num_points = 0 THEN before
             ELSE IF seg > 1 /\ segment_points # <<>>
             THEN before \o Tail(segment_points)
             ELSE before \o segment_points

\* Timestamps from milliseconds to the generator's microseconds
InMicros(points) ==
    [i \in 1..Len(points) |-> [points[i] EXCEPT !.timestamp_ms = @ * 1000]]

\* Timestamps from microseconds to the follower's 0.1 ms
InSpringTime(points) ==
    [i \in 1..Len(points) |-> [points[i] EXCEPT !.timestamp_ms = @ \div 100]]

NoSmoothing ==
    [done |-> FALSE, ok |-> FALSE, err |-> "", ret |-> None, frame_counts |-> <<>>, ext |-> <<>>,
     quads |-> <<>>, chain |-> <<>>, targets |-> <<>>, filtered |-> <<>>]

\* smooth_cursor_path_with_params(cursor_points, config, target_fps, _)
smooth_cursor_path_with_params(cursor_points, config, target_fps) ==
    LET n == Len(cursor_points)
        frame_counts == calculate_frames_between_points(cursor_points, target_fps)
    IN  IF n < 4
        THEN [NoSmoothing EXCEPT !.done = TRUE,
                                 !.err = "Need at least 4 cursor points for smoothing"]
        ELSE IF Len(frame_counts) # n - 1
        THEN [NoSmoothing EXCEPT !.done = TRUE, !.err = "Frame count mismatch"]
        ELSE LET ext == ExtendedControls(n)
                 ext_points == [i \in 1..Len(ext) |-> cursor_points[ext[i]]]
                 chain == SplineChain(ext_points, frame_counts, config.smoothing_alpha, n - 1)
                 targets == generate_targets_with_click_constraints(
                                InMicros(cursor_points), InMicros(chain), target_fps)
             IN  [done |-> TRUE, ok |-> TRUE, err |-> "", ret |-> None,
                  frame_counts |-> frame_counts,
                  ext |-> ext,
                  quads |-> [seg \in 1..(n - 1) |->
                                [p0 |-> seg, p1 |-> seg + 1, p2 |-> seg + 2, p3 |-> seg + 3,
                                 num_points |-> frame_counts[seg]]],
                  chain |-> chain,
                  targets |-> targets,
                  filtered |-> spring_follow_path(InSpringTime(targets), config).out]

\* Step 2 of process_video_with_cursor (lib.rs:310-325): an Err of the
\* smoothing stage makes the call return -3
SmoothCursorPath ==
    /\ ~m_out.done
    /\ LET r == smooth_cursor_path_with_params(m_points, m_config, m_config.target_fps)
       IN  m_out' = [r EXCEPT !.ret = IF r.ok THEN None ELSE Some(0 - 3)]
    /\ UNCHANGED <<m_points, m_config, notSmoothVars>>

\* ------------------------------------------------------------------------
\* position_at_distance applied to a point sequence, its cumulative table
\* and an arbitrary query.  d_out keeps the position returned and, for two
\* points or more, the clamped query and the pair of (0-based) indices the
\* binary search ends with.
\* ------------------------------------------------------------------------
QueryMargin == 2        \* queries range from -QueryMargin to the longest table + QueryMargin

DistanceQueries == (0 - QueryMargin)..(10 * (MaxArcPoints - 1) + QueryMargin)

PositionAtDistance ==
    /\ ~d_out.done
    /\ LET cum == cumulative_lengths(d_in.points)
           clamped == IF Len(cum) >= 2 THEN Min(Max(d_in.s_query, 0), cum[Len(cum)]) ELSE 0
       IN  d_out' = [done |-> TRUE,
                     pos |-> position_at_distance(d_in.points, cum, d_in.s_query),
                     s_query |-> clamped,
                     bracket |-> IF Len(cum) >= 2 THEN Bracket(cum, clamped, 0, Len(cum) - 1)
                                 ELSE <<0, 0>>]
    /\ UNCHANGED <<d_in, notPosVars>>

\* ------------------------------------------------------------------------
\* ensure_ffmpeg_init, called from several threads (the exported function
\* may be entered on any thread, and one run of it calls the guard twice:
\* lib.rs:254 and lib.rs:542).  FFMPEG_INIT is the OnceLock<bool>:
\* get_or_init returns the stored value when there is one; otherwise one
\* caller runs the closure while the others wait for it, and the value the
\* closure returns is stored.  init_log records every run of ffmpeg::init()
\* with its outcome (TRUE for Ok).
\* ------------------------------------------------------------------------
MaxInitThreads == 3     \* threads calling ensure_ffmpeg_init
MaxInitCalls == 2       \* calls made by each thread

InitThreadIds == 1..MaxInitThreads

\* OnceLock::new()
OnceLockNew == [state |-> "incomplete", value |-> FALSE]

IdleInit ==
    [t \in InitThreadIds |-> [pc |-> "idle", initialized |-> FALSE, returned |-> <<>>]]

\* A cell whose closure is run by every caller that finds no value yet
RunsClosure_Unsynchronized(cell) == cell.state # "complete"

\* get_or_init runs the closure of the caller that finds the cell
\* incomplete; a caller that finds an initialization running waits
RunsClosure(cell) == cell.state = "incomplete"

\* entry of ensure_ffmpeg_init on thread t
EnsureFfmpegInit(t) ==
    /\ init_threads[t].pc = "idle"
    /\ Len(init_threads[t].returned) < MaxInitCalls
    /\ init_threads' = [init_threads EXCEPT ![t].pc = "get_or_init"]
    /\ UNCHANGED <<FFMPEG_INIT, init_log, notInitVars>>

\* get_or_init on an initialized cell: the stored value
GetOrInitStored(t) ==
    /\ init_threads[t].pc = "get_or_init"
    /\ FFMPEG_INIT.state = "complete"
    /\ init_threads' = [init_threads EXCEPT ![t].pc = "check",
                                            ![t].initialized = FFMPEG_INIT.value]
    /\ UNCHANGED <<FFMPEG_INIT, init_log, notInitVars>>

\* get_or_init on an empty cell: this caller is the one to run the closure
GetOrInitClaim(t) ==
    /\ init_threads[t].pc = "get_or_init"
    /\ RunsClosure(FFMPEG_INIT)
    /\ FFMPEG_INIT' = [FFMPEG_INIT EXCEPT !.state = "running"]
    /\ init_threads' = [init_threads EXCEPT ![t].pc = "closure"]
    /\ UNCHANGED <<init_log, notInitVars>>

\* the closure: ffmpeg::init() succeeds or fails, and the bool is stored
FfmpegInit(t) ==
    /\ init_threads[t].pc = "closure"
    /\ \E ok \in BOOLEAN :
          /\ init_log' = Append(init_log, ok)
          /\ FFMPEG_INIT' = [state |-> "complete", value |-> ok]
          /\ init_threads' = [init_threads EXCEPT ![t].pc = "check",
                                                  ![t].initialized = ok]
    /\ UNCHANGED notInitVars

\* `if *initialized { Ok(()) } else { Err(ffmpeg::Error::Bug) }`
EnsureReturn(t) ==
    /\ init_threads[t].pc = "check"
    /\ init_threads' = [init_threads EXCEPT
                          ![t].pc = "idle",
                          ![t].returned = Append(@, IF init_threads[t].initialized
                                                    THEN "Ok" ELSE "Err(Bug)")]
    /\ UNCHANGED <<FFMPEG_INIT, init_log, notInitVars>>

InitNext ==
    \E t \in InitThreadIds :
        \/ EnsureFfmpegInit(t)
        \/ GetOrInitStored(t)
        \/ GetOrInitClaim(t)
        \/ FfmpegInit(t)
        \/ EnsureReturn(t)

\* ------------------------------------------------------------------------
\* Specifications.  Each one runs one component; the variables of the
\* others stay at an idle value.
\* ------------------------------------------------------------------------
IdleArgs ==
    [input_null |-> FALSE, output_null |-> FALSE, cursor_null |-> FALSE,
     points_null |-> FALSE, config_null |-> FALSE,
     input_utf8 |-> TRUE, output_utf8 |-> TRUE, cursor_utf8 |-> TRUE,
     has_callback |-> FALSE, raw_cursor_points_len |-> 0, total_frames |-> 0]
IdleCall == [op |-> "idle", ready |-> FALSE, offset |-> 0, path_start |-> 0,
             was_computed |-> FALSE, frame_ms |-> 0]
IdleResult == [done |-> TRUE, pos |-> NoPosition]
IdleConfig == [frame_rate |-> 0, responsiveness |-> 0, smoothness |-> 0]
IdleSplineIn == [quad |-> <<>>, num_points |-> 0, alpha |-> 0]
NoSpline == [done |-> FALSE, points |-> <<>>]
IdleCompIn == [frame_width |-> 1, frame_height |-> 1, padding |-> 0, width |-> 1, height |-> 1,
               alpha |-> "opaque", x2 |-> 0, y2 |-> 0]
NoWrites == [done |-> FALSE, op |-> "none", bytes_per_pixel |-> 0, writes |-> {}]
NoTable == [done |-> FALSE, cum |-> <<>>]
IdleSmoothConfig == [target_fps |-> 0, frame_rate |-> 0, smoothing_alpha |-> 0,
                     responsiveness |-> 0, smoothness |-> 0]
IdleDistanceIn == [points |-> <<>>, s_query |-> 0]
NoDistance == [done |-> FALSE, pos |-> <<0, 0>>, s_query |-> 0, bracket |-> <<0, 0>>]
IdleCfg == [frame_rate |-> <<0, 1>>, first_pts |-> 0, has_callback |-> FALSE, total_frames |-> 0]

InitProcess ==
    /\ pc = "start" /\ args \in ArgSpace /\ progress = <<>> /\ ret = None
    /\ stages = {} /\ smooth_ok = FALSE /\ processed_frames = 0 /\ frame_number = 0
    /\ alignment = AlignmentNew /\ align_call = IdleCall
    /\ h_path = <<>> /\ h_query = 0 /\ h_result = IdleResult
    /\ g_raw = <<>> /\ g_spline = <<>> /\ g_fps = 0 /\ g_targets = <<>> /\ g_pc = "idle"
    /\ render_pc = "idle" /\ render_cfg = IdleCfg /\ smoothed_path = <<>> /\ decoded = <<>>
    /\ sent = <<>> /\ written = 0 /\ cur_pts = 0 /\ events = <<>>
    /\ p_in = IdleParams /\ p_out = NoParams
    /\ s_points = <<>> /\ s_config = IdleConfig /\ s_out = <<>> /\ s_steps = <<>> /\ s_pc = "idle"
    /\ cr_in = IdleSplineIn /\ cr_out = NoSpline
    /\ c_in = IdleCompIn /\ c_out = NoWrites
    /\ a_points = <<>> /\ a_cum = NoTable
    /\ m_points = <<>> /\ m_config = IdleSmoothConfig /\ m_out = NoSmoothing
    /\ d_in = IdleDistanceIn /\ d_out = NoDistance
    /\ FFMPEG_INIT = OnceLockNew /\ init_threads = IdleInit /\ init_log = <<>>

InitAlign ==
    /\ pc = "idle" /\ args = IdleArgs /\ progress = <<>> /\ ret = None
    /\ stages = {} /\ smooth_ok = FALSE /\ processed_frames = 0 /\ frame_number = 0
    /\ alignment = AlignmentNew
    /\ align_call \in { [op |-> "new", ready |-> FALSE, offset |-> 0, path_start |-> ps,
                         was_computed |-> FALSE, frame_ms |-> 0] : ps \in PathStarts }
    /\ h_path = <<>> /\ h_query = 0 /\ h_result = IdleResult
    /\ g_raw = <<>> /\ g_spline = <<>> /\ g_fps = 0 /\ g_targets = <<>> /\ g_pc = "idle"
    /\ render_pc = "idle" /\ render_cfg = IdleCfg /\ smoothed_path = <<>> /\ decoded = <<>>
    /\ sent = <<>> /\ written = 0 /\ cur_pts = 0 /\ events = <<>>
    /\ p_in = IdleParams /\ p_out = NoParams
    /\ s_points = <<>> /\ s_config = IdleConfig /\ s_out = <<>> /\ s_steps = <<>> /\ s_pc = "idle"
    /\ cr_in = IdleSplineIn /\ cr_out = NoSpline
    /\ c_in = IdleCompIn /\ c_out = NoWrites
    /\ a_points = <<>> /\ a_cum = NoTable
    /\ m_points = <<>> /\ m_config = IdleSmoothConfig /\ m_out = NoSmoothing
    /\ d_in = IdleDistanceIn /\ d_out = NoDistance
    /\ FFMPEG_INIT = OnceLockNew /\ init_threads = IdleInit /\ init_log = <<>>

InitHermite ==
    /\ pc = "idle" /\ args = IdleArgs /\ progress = <<>> /\ ret = None
    /\ stages = {} /\ smooth_ok = FALSE /\ processed_frames = 0 /\ frame_number = 0
    /\ alignment = AlignmentNew /\ align_call = IdleCall
    /\ h_path \in Paths /\ h_query \in Queries
    /\ h_result = [done |-> FALSE, pos |-> NoPosition]
    /\ g_raw = <<>> /\ g_spline = <<>> /\ g_fps = 0 /\ g_targets = <<>> /\ g_pc = "idle"
    /\ render_pc = "idle" /\ render_cfg = IdleCfg /\ smoothed_path = <<>> /\ decoded = <<>>
    /\ sent = <<>> /\ written = 0 /\ cur_pts = 0 /\ events = <<>>
    /\ p_in = IdleParams /\ p_out = NoParams
    /\ s_points = <<>> /\ s_config = IdleConfig /\ s_out = <<>> /\ s_steps = <<>> /\ s_pc = "idle"
    /\ cr_in = IdleSplineIn /\ cr_out = NoSpline
    /\ c_in = IdleCompIn /\ c_out = NoWrites
    /\ a_points = <<>> /\ a_cum = NoTable
    /\ m_points = <<>> /\ m_config = IdleSmoothConfig /\ m_out = NoSmoothing
    /\ d_in = IdleDistanceIn /\ d_out = NoDistance
    /\ FFMPEG_INIT = OnceLockNew /\ init_threads = IdleInit /\ init_log = <<>>

InitTargets ==
    /\ pc = "idle" /\ args = IdleArgs /\ progress = <<>> /\ ret = None
    /\ stages = {} /\ smooth_ok = FALSE /\ processed_frames = 0 /\ frame_number = 0
    /\ alignment = AlignmentNew /\ align_call = IdleCall
    /\ h_path = <<>> /\ h_query = 0 /\ h_result = IdleResult
    /\ g_raw \in RawAnchors /\ g_spline \in Splines /\ g_fps \in FrameRates
    /\ g_targets = <<>> /\ g_pc = "input"
    /\ render_pc = "idle" /\ render_cfg = IdleCfg /\ smoothed_path = <<>> /\ decoded = <<>>
    /\ sent = <<>> /\ written = 0 /\ cur_pts = 0 /\ events = <<>>
    /\ p_in = IdleParams /\ p_out = NoParams
    /\ s_points = <<>> /\ s_config = IdleConfig /\ s_out = <<>> /\ s_steps = <<>> /\ s_pc = "idle"
    /\ cr_in = IdleSplineIn /\ cr_out = NoSpline
    /\ c_in = IdleCompIn /\ c_out = NoWrites
    /\ a_points = <<>> /\ a_cum = NoTable
    /\ m_points = <<>> /\ m_config = IdleSmoothConfig /\ m_out = NoSmoothing
    /\ d_in = IdleDistanceIn /\ d_out = NoDistance
    /\ FFMPEG_INIT = OnceLockNew /\ init_threads = IdleInit /\ init_log = <<>>

InitRender ==
    /\ pc = "idle" /\ args = IdleArgs /\ progress = <<>> /\ ret = None
    /\ stages = {} /\ smooth_ok = FALSE /\ processed_frames = 0 /\ frame_number = 0
    /\ alignment = AlignmentNew /\ align_call = IdleCall
    /\ h_path = <<>> /\ h_query = 0 /\ h_result = IdleResult
    /\ g_raw = <<>> /\ g_spline = <<>> /\ g_fps = 0 /\ g_targets = <<>> /\ g_pc = "idle"
    /\ render_pc = "packets" /\ smoothed_path \in RenderPaths
    /\ render_cfg \in { [frame_rate |-> fr,
                         first_pts |-> PathStartTicks(smoothed_path) + shift,
                         has_callback |-> cb, total_frames |-> tf] :
                           fr \in RenderFrameRates, shift \in {0, ShiftD},
                           cb \in BOOLEAN, tf \in {MaxTotalFrames} }
    /\ decoded = <<>> /\ sent = <<>> /\ written = 0 /\ cur_pts = 0 /\ events = <<>>
    /\ p_in = IdleParams /\ p_out = NoParams
    /\ s_points = <<>> /\ s_config = IdleConfig /\ s_out = <<>> /\ s_steps = <<>> /\ s_pc = "idle"
    /\ cr_in = IdleSplineIn /\ cr_out = NoSpline
    /\ c_in = IdleCompIn /\ c_out = NoWrites
    /\ a_points = <<>> /\ a_cum = NoTable
    /\ m_points = <<>> /\ m_config = IdleSmoothConfig /\ m_out = NoSmoothing
    /\ d_in = IdleDistanceIn /\ d_out = NoDistance
    /\ FFMPEG_INIT = OnceLockNew /\ init_threads = IdleInit /\ init_log = <<>>

InitParams ==
    /\ pc = "idle" /\ args = IdleArgs /\ progress = <<>> /\ ret = None
    /\ stages = {} /\ smooth_ok = FALSE /\ processed_frames = 0 /\ frame_number = 0
    /\ alignment = AlignmentNew /\ align_call = IdleCall
    /\ h_path = <<>> /\ h_query = 0 /\ h_result = IdleResult
    /\ g_raw = <<>> /\ g_spline = <<>> /\ g_fps = 0 /\ g_targets = <<>> /\ g_pc = "idle"
    /\ render_pc = "idle" /\ render_cfg = IdleCfg /\ smoothed_path = <<>> /\ decoded = <<>>
    /\ sent = <<>> /\ written = 0 /\ cur_pts = 0 /\ events = <<>>
    /\ p_in \in [responsiveness : ParamValues, smoothness : ParamValues]
    /\ p_out = NoParams
    /\ s_points = <<>> /\ s_config = IdleConfig /\ s_out = <<>> /\ s_steps = <<>> /\ s_pc = "idle"
    /\ cr_in = IdleSplineIn /\ cr_out = NoSpline
    /\ c_in = IdleCompIn /\ c_out = NoWrites
    /\ a_points = <<>> /\ a_cum = NoTable
    /\ m_points = <<>> /\ m_config = IdleSmoothConfig /\ m_out = NoSmoothing
    /\ d_in = IdleDistanceIn /\ d_out = NoDistance
    /\ FFMPEG_INIT = OnceLockNew /\ init_threads = IdleInit /\ init_log = <<>>

InitSpring ==
    /\ pc = "idle" /\ args = IdleArgs /\ progress = <<>> /\ ret = None
    /\ stages = {} /\ smooth_ok = FALSE /\ processed_frames = 0 /\ frame_number = 0
    /\ alignment = AlignmentNew /\ align_call = IdleCall
    /\ h_path = <<>> /\ h_query = 0 /\ h_result = IdleResult
    /\ g_raw = <<>> /\ g_spline = <<>> /\ g_fps = 0 /\ g_targets = <<>> /\ g_pc = "idle"
    /\ render_pc = "idle" /\ render_cfg = IdleCfg /\ smoothed_path = <<>> /\ decoded = <<>>
    /\ sent = <<>> /\ written = 0 /\ cur_pts = 0 /\ events = <<>>
    /\ p_in = IdleParams /\ p_out = NoParams
    /\ s_points \in SpringTargets \cup LongGapTargets
    /\ s_config \in [frame_rate : SpringFrameRates, responsiveness : {500},
                     smoothness : SpringSmoothness]
    /\ s_out = <<>> /\ s_steps = <<>> /\ s_pc = "input"
    /\ cr_in = IdleSplineIn /\ cr_out = NoSpline
    /\ c_in = IdleCompIn /\ c_out = NoWrites
    /\ a_points = <<>> /\ a_cum = NoTable
    /\ m_points = <<>> /\ m_config = IdleSmoothConfig /\ m_out = NoSmoothing
    /\ d_in = IdleDistanceIn /\ d_out = NoDistance
    /\ FFMPEG_INIT = OnceLockNew /\ init_threads = IdleInit /\ init_log = <<>>

InitSpline ==
    /\ pc = "idle" /\ args = IdleArgs /\ progress = <<>> /\ ret = None
    /\ stages = {} /\ smooth_ok = FALSE /\ processed_frames = 0 /\ frame_number = 0
    /\ alignment = AlignmentNew /\ align_call = IdleCall
    /\ h_path = <<>> /\ h_query = 0 /\ h_result = IdleResult
    /\ g_raw = <<>> /\ g_spline = <<>> /\ g_fps = 0 /\ g_targets = <<>> /\ g_pc = "idle"
    /\ render_pc = "idle" /\ render_cfg = IdleCfg /\ smoothed_path = <<>> /\ decoded = <<>>
    /\ sent = <<>> /\ written = 0 /\ cur_pts = 0 /\ events = <<>>
    /\ p_in = IdleParams /\ p_out = NoParams
    /\ s_points = <<>> /\ s_config = IdleConfig /\ s_out = <<>> /\ s_steps = <<>> /\ s_pc = "idle"
    /\ cr_in \in [quad : SplineQuads, num_points : 0..MaxNumPoints, alpha : AlphaValues]
    /\ cr_out = NoSpline
    /\ c_in = IdleCompIn /\ c_out = NoWrites
    /\ a_points = <<>> /\ a_cum = NoTable
    /\ m_points = <<>> /\ m_config = IdleSmoothConfig /\ m_out = NoSmoothing
    /\ d_in = IdleDistanceIn /\ d_out = NoDistance
    /\ FFMPEG_INIT = OnceLockNew /\ init_threads = IdleInit /\ init_log = <<>>

InitComp ==
    /\ pc = "idle" /\ args = IdleArgs /\ progress = <<>> /\ ret = None
    /\ stages = {} /\ smooth_ok = FALSE /\ processed_frames = 0 /\ frame_number = 0
    /\ alignment = AlignmentNew /\ align_call = IdleCall
    /\ h_path = <<>> /\ h_query = 0 /\ h_result = IdleResult
    /\ g_raw = <<>> /\ g_spline = <<>> /\ g_fps = 0 /\ g_targets = <<>> /\ g_pc = "idle"
    /\ render_pc = "idle" /\ render_cfg = IdleCfg /\ smoothed_path = <<>> /\ decoded = <<>>
    /\ sent = <<>> /\ written = 0 /\ cur_pts = 0 /\ events = <<>>
    /\ p_in = IdleParams /\ p_out = NoParams
    /\ s_points = <<>> /\ s_config = IdleConfig /\ s_out = <<>> /\ s_steps = <<>> /\ s_pc = "idle"
    /\ cr_in = IdleSplineIn /\ cr_out = NoSpline
    /\ c_in \in CompInputs
    /\ c_out = NoWrites
    /\ a_points = <<>> /\ a_cum = NoTable
    /\ m_points = <<>> /\ m_config = IdleSmoothConfig /\ m_out = NoSmoothing
    /\ d_in = IdleDistanceIn /\ d_out = NoDistance
    /\ FFMPEG_INIT = OnceLockNew /\ init_threads = IdleInit /\ init_log = <<>>

InitArc ==
    /\ pc = "idle" /\ args = IdleArgs /\ progress = <<>> /\ ret = None
    /\ stages = {} /\ smooth_ok = FALSE /\ processed_frames = 0 /\ frame_number = 0
    /\ alignment = AlignmentNew /\ align_call = IdleCall
    /\ h_path = <<>> /\ h_query = 0 /\ h_result = IdleResult
    /\ g_raw = <<>> /\ g_spline = <<>> /\ g_fps = 0 /\ g_targets = <<>> /\ g_pc = "idle"
    /\ render_pc = "idle" /\ render_cfg = IdleCfg /\ smoothed_path = <<>> /\ decoded = <<>>
    /\ sent = <<>> /\ written = 0 /\ cur_pts = 0 /\ events = <<>>
    /\ p_in = IdleParams /\ p_out = NoParams
    /\ s_points = <<>> /\ s_config = IdleConfig /\ s_out = <<>> /\ s_steps = <<>> /\ s_pc = "idle"
    /\ cr_in = IdleSplineIn /\ cr_out = NoSpline
    /\ c_in = IdleCompIn /\ c_out = NoWrites
    /\ a_points \in ArcSeqs(MaxArcPoints)
    /\ a_cum = NoTable
    /\ m_points = <<>> /\ m_config = IdleSmoothConfig /\ m_out = NoSmoothing
    /\ d_in = IdleDistanceIn /\ d_out = NoDistance
    /\ FFMPEG_INIT = OnceLockNew /\ init_threads = IdleInit /\ init_log = <<>>

InitSmooth ==
    /\ pc = "idle" /\ args = IdleArgs /\ progress = <<>> /\ ret = None
    /\ stages = {} /\ smooth_ok = FALSE /\ processed_frames = 0 /\ frame_number = 0
    /\ alignment = AlignmentNew /\ align_call = IdleCall
    /\ h_path = <<>> /\ h_query = 0 /\ h_result = IdleResult
    /\ g_raw = <<>> /\ g_spline = <<>> /\ g_fps = 0 /\ g_targets = <<>> /\ g_pc = "idle"
    /\ render_pc = "idle" /\ render_cfg = IdleCfg /\ smoothed_path = <<>> /\ decoded = <<>>
    /\ sent = <<>> /\ written = 0 /\ cur_pts = 0 /\ events = <<>>
    /\ p_in = IdleParams /\ p_out = NoParams
    /\ s_points = <<>> /\ s_config = IdleConfig /\ s_out = <<>> /\ s_steps = <<>> /\ s_pc = "idle"
    /\ cr_in = IdleSplineIn /\ cr_out = NoSpline
    /\ c_in = IdleCompIn /\ c_out = NoWrites
    /\ a_points = <<>> /\ a_cum = NoTable
    /\ m_points \in RawSamples(MaxRawSamples)
    /\ m_config \in [target_fps : SmoothFrameRates, frame_rate : {60}, smoothing_alpha : {0, 500},
                     responsiveness : {500}, smoothness : {500}]
    /\ m_out = NoSmoothing
    /\ d_in = IdleDistanceIn /\ d_out = NoDistance
    /\ FFMPEG_INIT = OnceLockNew /\ init_threads = IdleInit /\ init_log = <<>>

InitPos ==
    /\ pc = "idle" /\ args = IdleArgs /\ progress = <<>> /\ ret = None
    /\ stages = {} /\ smooth_ok = FALSE /\ processed_frames = 0 /\ frame_number = 0
    /\ alignment = AlignmentNew /\ align_call = IdleCall
    /\ h_path = <<>> /\ h_query = 0 /\ h_result = IdleResult
    /\ g_raw = <<>> /\ g_spline = <<>> /\ g_fps = 0 /\ g_targets = <<>> /\ g_pc = "idle"
    /\ render_pc = "idle" /\ render_cfg = IdleCfg /\ smoothed_path = <<>> /\ decoded = <<>>
    /\ sent = <<>> /\ written = 0 /\ cur_pts = 0 /\ events = <<>>
    /\ p_in = IdleParams /\ p_out = NoParams
    /\ s_points = <<>> /\ s_config = IdleConfig /\ s_out = <<>> /\ s_steps = <<>> /\ s_pc = "idle"
    /\ cr_in = IdleSplineIn /\ cr_out = NoSpline
    /\ c_in = IdleCompIn /\ c_out = NoWrites
    /\ a_points = <<>> /\ a_cum = NoTable
    /\ m_points = <<>> /\ m_config = IdleSmoothConfig /\ m_out = NoSmoothing
    /\ d_in \in [points : ArcSeqs(MaxArcPoints), s_query : DistanceQueries]
    /\ d_out = NoDistance
    /\ FFMPEG_INIT = OnceLockNew /\ init_threads = IdleInit /\ init_log = <<>>

InitInit ==
    /\ pc = "idle" /\ args = IdleArgs /\ progress = <<>> /\ ret = None
    /\ stages = {} /\ smooth_ok = FALSE /\ processed_frames = 0 /\ frame_number = 0
    /\ alignment = AlignmentNew /\ align_call = IdleCall
    /\ h_path = <<>> /\ h_query = 0 /\ h_result = IdleResult
    /\ g_raw = <<>> /\ g_spline = <<>> /\ g_fps = 0 /\ g_targets = <<>> /\ g_pc = "idle"
    /\ render_pc = "idle" /\ render_cfg = IdleCfg /\ smoothed_path = <<>> /\ decoded = <<>>
    /\ sent = <<>> /\ written = 0 /\ cur_pts = 0 /\ events = <<>>
    /\ p_in = IdleParams /\ p_out = NoParams
    /\ s_points = <<>> /\ s_config = IdleConfig /\ s_out = <<>> /\ s_steps = <<>> /\ s_pc = "idle"
    /\ cr_in = IdleSplineIn /\ cr_out = NoSpline
    /\ c_in = IdleCompIn /\ c_out = NoWrites
    /\ a_points = <<>> /\ a_cum = NoTable
    /\ m_points = <<>> /\ m_config = IdleSmoothConfig /\ m_out = NoSmoothing
    /\ d_in = IdleDistanceIn
    /\ d_out = NoDistance
    /\ FFMPEG_INIT = OnceLockNew /\ init_threads = IdleInit /\ init_log = <<>>

SpecProcess == InitProcess /\ [][ProcNext]_vars

SpecAlign == InitAlign /\ [][AlignNext]_vars

SpecHermite == InitHermite /\ [][HermiteLookup]_vars

SpecTargets == InitTargets /\ [][GenerateTargets]_vars

SpecRender == InitRender /\ [][RenderNext]_vars

SpecParams == InitParams /\ [][DeriveSpringParams]_vars

SpecSpring == InitSpring /\ [][SpringFollow]_vars

SpecSpline == InitSpline /\ [][CatmullRomSpline]_vars

SpecComp == InitComp /\ [][CompNext]_vars

SpecArc == InitArc /\ [][CumulativeLengths]_vars

SpecSmooth == InitSmooth /\ [][SmoothCursorPath]_vars

SpecPos == InitPos /\ [][PositionAtDistance]_vars

SpecInit == InitInit /\ [][InitNext]_vars

\* ------------------------------------------------------------------------
\* Claims
\* ------------------------------------------------------------------------
InProgress(value) == \E i \in 1..Len(progress) : RatEq(progress[i], value)

\* C1: process_video_with_cursor returns -1 when one of the five pointers is
\* null and -2 when all are non-null but a path is not valid UTF-8; in both
\* cases the progress callback is never invoked and neither video
\* inspection, smoothing nor rendering starts.
C1_InvalidInputNoWork ==
    LET a == args
        some_null == a.input_null \/ a.output_null \/ a.cursor_null
                        \/ a.points_null \/ a.config_null
        bad_path == ~a.input_utf8 \/ ~a.output_utf8 \/ ~a.cursor_utf8
    IN  /\ (some_null \/ bad_path) =>
              progress = <<>> /\ stages = {} /\ pc \in {"start", "done", "idle"}
        /\ (pc = "done" /\ some_null) => ret = Some(-1)
        /\ (pc = "done" /\ ~some_null /\ bad_path) => ret = Some(-2)
        /\ (ret = Some(-1) \/ ret = Some(-2)) => progress = <<>> /\ stages = {}

C1_Witness ==
    /\ pc = "done"
    /\ ret = Some(-2)
    /\ args.has_callback
    /\ ~args.cursor_utf8 /\ args.input_utf8 /\ args.output_utf8

\* C2: with valid pointers and paths and fewer than 4 raw samples the call
\* returns -3 whether or not the video could be inspected; the render stage
\* never starts, 0.10 is never reported and -4 is never returned.
C2_TooFewSamples ==
    LET a == args
        valid == ~a.input_null /\ ~a.output_null /\ ~a.cursor_null /\ ~a.points_null
                    /\ ~a.config_null /\ a.input_utf8 /\ a.output_utf8 /\ a.cursor_utf8
    IN  (pc # "idle" /\ valid /\ a.raw_cursor_points_len < 4) =>
            /\ pc = "done" => ret = Some(-3)
            /\ "render" \notin stages
            /\ ~InProgress(ProgressSmoothed)
            /\ ret # Some(-4)
            /\ pc \in {"start", "entry", "inspect", "smooth", "done"}

C2_Witness ==
    /\ ret = Some(-3)
    /\ args.raw_cursor_points_len = 3
    /\ "inspect_fallback" \in stages
    /\ args.has_callback

\* C3: the values passed to the progress callback over one run are
\* non-decreasing and each lies in [0, 1].
C3_ProgressMonotone ==
    /\ \A i \in 1..Len(progress) :
          RatLeq(<<0, 1>>, progress[i]) /\ RatLeq(progress[i], <<1, 1>>)
    /\ \A i \in 1..(Len(progress) - 1) : RatLeq(progress[i], progress[i + 1])

\* more frames decoded than the stream announced, and the run succeeded
C3_Witness ==
    /\ ret = Some(0)
    /\ args.total_frames > 0
    /\ processed_frames > args.total_frames
    /\ Len(progress) = processed_frames + 3

\* C4: the callback receives 0.00 first, 0.10 exactly when smoothing has
\* succeeded, and 1.0 if and only if the call returns 0, as the last value;
\* a run returning -3 or -4 never reports 1.0.
C4_Milestones ==
    /\ progress # <<>> => RatEq(progress[1], ProgressEntry)
    /\ (args.has_callback /\ pc \notin {"start", "entry", "idle"} /\ ~ret.is_some)
          => progress # <<>>
    /\ InProgress(ProgressSmoothed) => smooth_ok
    /\ (args.has_callback /\ smooth_ok /\ pc # "smoothed") =>
          /\ Len(progress) >= 2
          /\ RatEq(progress[2], ProgressSmoothed)
          /\ \A i \in 1..Len(progress) : RatEq(progress[i], ProgressSmoothed) => i = 2
    /\ InProgress(ProgressDone) => ret = Some(0)
    /\ (args.has_callback /\ ret = Some(0)) =>
          /\ RatEq(progress[Len(progress)], ProgressDone)
          /\ \A i \in 1..(Len(progress) - 1) : ~RatEq(progress[i], ProgressDone)
    /\ (ret = Some(-3) \/ ret = Some(-4)) => ~InProgress(ProgressDone)

C4_Witness ==
    /\ ret = Some(-4)
    /\ args.has_callback
    /\ args.total_frames > 0
    /\ processed_frames >= args.total_frames

\* C8: on a path of at least 2 points with non-decreasing timestamps the
\* oracle returns the first point, clamped, for t < t_first, the last point,
\* clamped, for t > t_last, and an unclamped position for t in
\* [t_first, t_last]; a single point is returned clamped; an empty path
\* yields no result.
C8_OracleClamping ==
    h_result.done =>
        LET n == Len(h_path)
            r == h_result.pos
        IN  /\ n = 0 => ~r.some
            /\ n = 1 => r = Position(h_path[1].x, h_path[1].y, TRUE)
            /\ n >= 2 =>
                 /\ h_query < h_path[1].timestamp_ms =>
                       r = Position(h_path[1].x, h_path[1].y, TRUE)
                 /\ h_query > h_path[n].timestamp_ms =>
                       r = Position(h_path[n].x, h_path[n].y, TRUE)
                 /\ (h_query >= h_path[1].timestamp_ms /\ h_query <= h_path[n].timestamp_ms) =>
                       r.some /\ ~r.clamped

C8_Witness ==
    /\ h_result.done
    /\ Len(h_path) = 3
    /\ h_query = h_path[3].timestamp_ms
    /\ h_path[2].timestamp_ms < h_query
    /\ ~h_result.pos.clamped

\* C9 as stated: when two consecutive points share a timestamp and the query
\* equals it, the oracle returns the first point of that pair, wherever the
\* pair sits in the path.
C9_Original_FirstOfPair ==
    h_result.done =>
        \A i \in 1..(Len(h_path) - 1) :
            (h_path[i].timestamp_ms = h_query /\ h_path[i + 1].timestamp_ms = h_query) =>
                h_result.pos = Position(h_path[i].x, h_path[i].y, FALSE)

\* C9 (amended): when two consecutive points of a path with non-decreasing
\* timestamps share a timestamp and the query equals it, the oracle returns,
\* unclamped and without dividing by the zero duration, the position of the
\* earliest point carrying that timestamp; that is the first point of the
\* pair when no earlier point has the same timestamp.
C9_EarliestOfTimestamp ==
    h_result.done =>
        \A i \in 1..(Len(h_path) - 1) :
            (h_path[i].timestamp_ms = h_query /\ h_path[i + 1].timestamp_ms = h_query) =>
                LET j == CHOOSE k \in 1..i :
                            /\ h_path[k].timestamp_ms = h_query
                            /\ \A m \in 1..(k - 1) : h_path[m].timestamp_ms < h_query
                IN  /\ h_result.pos = Position(h_path[j].x, h_path[j].y, FALSE)
                    /\ (i = 1 \/ h_path[i - 1].timestamp_ms < h_query) => j = i

C9_Witness ==
    /\ h_result.done
    /\ Len(h_path) = 3
    /\ h_path[1].timestamp_ms = h_query
    /\ h_path[2].timestamp_ms = h_query
    /\ h_path[3].timestamp_ms = h_query
    /\ h_path[1].x # h_path[2].x
    /\ h_result.pos = Position(h_path[1].x, h_path[1].y, FALSE)

\* C10: once computed_offset is set it never changes: a later add_sample
\* leaves the buffer and the offset unchanged and returns true, and a later
\* get_offset returns that same value.
C10_OffsetFrozen ==
    [][alignment.computed_offset.is_some =>
          /\ alignment'.computed_offset = alignment.computed_offset
          /\ alignment'.samples = alignment.samples
          /\ align_call'.op = "add_sample" => align_call'.ready
          /\ align_call'.op = "get_offset" =>
                align_call'.offset = alignment.computed_offset.val]_vars

C10_Witness ==
    /\ alignment.computed_offset.is_some
    /\ align_call.was_computed
    /\ align_call.op = "add_sample"
    /\ align_call.ready
    /\ Len(alignment.samples) < alignment.max_samples
    /\ alignment.computed_offset.val # 0

\* C5 as stated: for anchors with non-decreasing timestamps and a spline of
\* at least 2 points, every anchor appears among the targets at its original
\* timestamp and at exactly its position.  It is stated here for the case
\* most favourable to it: the spline passes through every anchor position
\* and has positive length, so that targets are generated between anchors.
C5_Original_AnchorsPreserved ==
    (/\ g_pc = "generated"
     /\ KinematicPath(g_raw, g_spline)
     /\ \A k \in 1..Len(g_raw) : \E i \in 1..Len(g_spline) :
           g_spline[i].x = g_raw[k].x /\ g_spline[i].y = g_raw[k].y)
    => \A k \in 1..Len(g_raw) : \E j \in 1..Len(g_targets) :
           /\ g_targets[j].timestamp_ms = g_raw[k].timestamp_ms
           /\ g_targets[j].x = g_raw[k].x
           /\ g_targets[j].y = g_raw[k].y

\* C6 as stated: for anchors with non-decreasing timestamps the timestamps
\* of the emitted targets are non-decreasing along the whole output.  (The
\* spring follower copies each target's timestamp to its PathPoint,
\* lib.rs:1084-1091, so the PathPoint timestamps are ordered exactly when
\* the targets' are.)
C6_Original_TargetsNonDecreasing ==
    g_pc = "generated" => TimesNonDecreasing(g_targets)

\* C7 as stated: the target sequence has strictly increasing timestamps,
\* also between the last target of a segment and the first of the next.
\* It is stated here for anchors whose own timestamps increase strictly.
C7_Original_StrictlyMonotone ==
    (/\ g_pc = "generated"
     /\ KinematicPath(g_raw, g_spline)
     /\ \A k \in 1..(Len(g_raw) - 1) : g_raw[k].timestamp_ms < g_raw[k + 1].timestamp_ms)
    =>
        \A i \in 1..(Len(g_targets) - 1) :
            g_targets[i].timestamp_ms < g_targets[i + 1].timestamp_ms

\* C7 (amended): the targets generated between anchors have non-decreasing,
\* not strictly increasing, timestamps: two consecutive targets share a
\* timestamp only at an anchor's timestamp, and they do so at every interior
\* anchor, where the endpoint of one segment is followed by the first target
\* of the next segment at the same timestamp.
C7_MonotoneWithBoundaryRepeats ==
    (g_pc = "generated" /\ KinematicPath(g_raw, g_spline)) =>
        /\ \A i \in 1..(Len(g_targets) - 1) :
              /\ g_targets[i].timestamp_ms <= g_targets[i + 1].timestamp_ms
              /\ g_targets[i].timestamp_ms = g_targets[i + 1].timestamp_ms =>
                    \E k \in 1..Len(g_raw) :
                        g_raw[k].timestamp_ms = g_targets[i].timestamp_ms
        /\ \A k \in 2..(Len(g_raw) - 1) : \E i \in 1..(Len(g_targets) - 1) :
              /\ g_targets[i].timestamp_ms = g_raw[k].timestamp_ms
              /\ g_targets[i + 1].timestamp_ms = g_raw[k].timestamp_ms

\* three anchors 100 ms apart, several frames in each segment
C7_Witness ==
    /\ g_pc = "generated"
    /\ KinematicPath(g_raw, g_spline)
    /\ Len(g_raw) = 3
    /\ g_raw[1].timestamp_ms < g_raw[2].timestamp_ms
    /\ g_raw[2].timestamp_ms < g_raw[3].timestamp_ms
    /\ g_fps = 0
    /\ Len(g_targets) > 2 * 6

\* Order statistics of a sample buffer, by counting (no sorting)
CountBelow(s, v) == Cardinality({ i \in 1..Len(s) : s[i] < v })
CountUpTo(s, v) == Cardinality({ i \in 1..Len(s) : s[i] <= v })
IsKthSmallest(s, k, v) ==
    /\ \E i \in 1..Len(s) : s[i] = v
    /\ CountBelow(s, v) <= k - 1
    /\ CountUpTo(s, v) >= k

\* C11: whenever the aligner has computed its offset, the offset is the
\* statistical median of the buffered samples (path_start_ms - frame_ms):
\* the middle element in sorted order for an odd count, the mean of the two
\* middle elements for an even count; and get_offset returns 0 when no
\* sample was ever recorded.
C11_OffsetIsMedian ==
    LET s == alignment.samples
        n == Len(s)
        m == alignment.computed_offset.val
    IN  /\ (alignment.computed_offset.is_some /\ n > 0) =>
              IF n % 2 = 1
              THEN IsKthSmallest(s, (n + 1) \div 2, m)
              ELSE \E i, j \in 1..n :
                      /\ IsKthSmallest(s, n \div 2, s[i])
                      /\ IsKthSmallest(s, (n \div 2) + 1, s[j])
                      /\ 2 * m = s[i] + s[j]
        /\ (align_call.op = "get_offset" /\ n = 0) =>
              (align_call.offset = 0 /\ ~alignment.computed_offset.is_some)
        /\ (align_call.op = "get_offset" /\ n > 0) =>
              (alignment.computed_offset.is_some /\ align_call.offset = m)

\* An even buffer of two different samples whose offset was computed
C11_Witness ==
    /\ alignment.computed_offset.is_some
    /\ Len(alignment.samples) = 2
    /\ alignment.samples[1] # alignment.samples[2]
    /\ align_call.op = "get_offset"
    /\ 2 * align_call.offset = alignment.samples[1] + alignment.samples[2]

C13_Original_ClampedNoOverlay ==
    \A i \in 1..Len(sent) : sent[i].overlay.clamped => ~sent[i].overlay.drawn

\* The endpoint of the path nearest to an aligned time outside its range
ClampEndpoint(path, aligned) ==
    IF aligned < PathStartTicks(path) THEN path[1] ELSE path[Len(path)]

\* C13 (amended): a clamped position does not abort the job; the frame is
\* sent to the encoder and the overlay routine is called on it at the
\* clamped position, the nearest endpoint of the path.  The overlay is
\* skipped only when the path is empty.
C13_ClampedDrawnAtEndpoint ==
    \A i \in 1..Len(sent) :
        LET o == sent[i].overlay
            e == ClampEndpoint(smoothed_path, sent[i].aligned)
        IN  /\ sent[i].id = i
            /\ o.drawn <=> smoothed_path # <<>>
            /\ o.clamped =>
                  /\ o.drawn
                  /\ o.x_pos = TruncPx(e.x) /\ o.y_pos = TruncPx(e.y)

\* A frame beyond the end of a two-point path, drawn at the last point, in
\* a run that went on to the trailer
C13_Witness ==
    /\ render_pc = "ok"
    /\ Len(smoothed_path) = 2
    /\ smoothed_path[1].timestamp_ms < smoothed_path[2].timestamp_ms
    /\ \E i \in 1..Len(sent) :
          /\ sent[i].overlay.clamped /\ sent[i].overlay.drawn
          /\ sent[i].aligned > smoothed_path[2].timestamp_ms * TicksPerMs
          /\ sent[i].overlay.x_pos = TruncPx(smoothed_path[2].x)
          /\ smoothed_path[2].x # smoothed_path[1].x

\* Positions of the calls of one kind in the call log
EventsOf(ev) == { k \in 1..Len(events) : events[k].ev = ev }

\* C14: in a successful render every frame the decoder emitted, in the
\* packet loop or in the decoder flush, was sent to the encoder exactly
\* once and in emission order, with a pts that never decreases; the decoder
\* got its EOF before the encoder got its own, no frame was sent after the
\* encoder's EOF, and the trailer was written last, with every packet of
\* the encoder written.
C14_FramesInOrder ==
    /\ Len(sent) <= Len(decoded)
    /\ \A i \in 1..Len(sent) : sent[i].id = decoded[i].id
    /\ \A i \in 1..(Len(sent) - 1) : sent[i].pts <= sent[i + 1].pts
    /\ written <= Len(sent)
    /\ render_pc = "ok" =>
          /\ Len(sent) = Len(decoded)
          /\ \A i \in 1..Len(decoded) : decoded[i].id = i
          /\ Cardinality(EventsOf("send_frame")) = Len(decoded)
          /\ Cardinality(EventsOf("decoder_eof")) = 1
          /\ Cardinality(EventsOf("encoder_eof")) = 1
          /\ EventsOf("trailer") = {Len(events)}
          /\ \A d \in EventsOf("decoder_eof"), e \in EventsOf("encoder_eof") :
                /\ d < e
                /\ \A f \in EventsOf("send_frame") : f < e
                /\ \A f, g \in EventsOf("send_frame") :
                      f < g => events[f].n < events[g].n
                /\ \A f \in EventsOf("send_frame") :
                      sent[events[f].n].in_packet_loop <=> f < d
          /\ events[Len(events)].n = Len(sent)

\* A successful run with frames from the packet loop and from the decoder
\* flush, where the encoder still held packets when it got its EOF
C14_Witness ==
    /\ render_pc = "ok"
    /\ Len(sent) = MaxRenderFrames
    /\ sent[1].in_packet_loop /\ ~sent[Len(sent)].in_packet_loop
    /\ \E e \in EventsOf("encoder_eof") : events[e].n < Len(sent)
    /\ sent[1].pts < sent[2].pts

\* C17: derive_spring_params maps the responsiveness, clamped to [0, 1], to
\* a settling time that decreases as the responsiveness grows, is 0.40 s at
\* responsiveness 0 and 0.06 s at responsiveness 1, and always lies within
\* [0.06 s, 0.40 s].
C17_Original_SettlingTimeMap ==
    p_out.done =>
        LET r == Clamp(p_in.responsiveness, 0, 1000)
        IN  /\ p_out.settling_time >= RESPONSIVENESS_MAX_SETTLING_SEC
            /\ p_out.settling_time <= RESPONSIVENESS_MIN_SETTLING_SEC
            /\ r = 0 => p_out.settling_time = RESPONSIVENESS_MIN_SETTLING_SEC
            /\ r = 1000 => p_out.settling_time = RESPONSIVENESS_MAX_SETTLING_SEC
            /\ \A r2 \in ParamValues :
                  Clamp(r2, 0, 1000) < r => SettlingTime(r2) > p_out.settling_time

\* C15: spring_follow_path returns one PathPoint per target, in the same
\* order, each with the timestamp of its target; an empty input gives an
\* empty output.
C15_OnePathPointPerTarget ==
    s_pc = "done" =>
        /\ Len(s_out) = Len(s_points)
        /\ \A i \in 1..Len(s_points) : s_out[i].timestamp_ms = s_points[i].timestamp_ms
        /\ s_points = <<>> => s_out = <<>>

\* Three targets whose timestamps go up and then back
C15_Witness ==
    /\ s_pc = "done"
    /\ Len(s_points) = 3 /\ Len(s_out) = 3
    /\ s_points[1].timestamp_ms < s_points[2].timestamp_ms
    /\ s_points[3].timestamp_ms < s_points[2].timestamp_ms
    /\ s_out[2].timestamp_ms = s_points[2].timestamp_ms
    /\ s_out[2].x # s_points[1].x

\* C16: when every target is at the position of the first one, at
\* non-decreasing timestamps, every PathPoint is at that position with zero
\* velocity.
C16_StationaryNoDrift ==
    (/\ s_pc = "done"
     /\ \A i \in 1..Len(s_points) :
           s_points[i].x = s_points[1].x /\ s_points[i].y = s_points[1].y
     /\ \A i \in 1..(Len(s_points) - 1) :
           s_points[i].timestamp_ms <= s_points[i + 1].timestamp_ms)
    => \A i \in 1..Len(s_out) :
          /\ s_out[i].x = s_points[1].x /\ s_out[i].y = s_points[1].y
          /\ s_out[i].vx = 0 /\ s_out[i].vy = 0

\* Three targets away from the origin at one position and growing timestamps
C16_Witness ==
    /\ s_pc = "done"
    /\ Len(s_points) = 3 /\ Len(s_out) = 3
    /\ \A i \in 1..3 : s_points[i].x = 3000 /\ s_points[i].y = 4000
    /\ s_points[1].timestamp_ms < s_points[2].timestamp_ms
    /\ s_points[2].timestamp_ms < s_points[3].timestamp_ms
    /\ s_out[3].x = 3000 /\ s_out[3].vx = 0
    /\ s_steps[2].substeps > 1

\* C18: for any four control points, coincident positions with distinct
\* timestamps included, catmull_rom_spline returns exactly num_points
\* points; none for 0, a single point equal to P1 for 1, and for 2 or more
\* the first equal to P1 and the last equal to P2 in x, y and timestamp.
C18_Original_SplineEnds ==
    cr_out.done =>
        LET n == cr_in.num_points
            out == cr_out.points
        IN  /\ Len(out) = n
            /\ n >= 1 => out[1] = cr_in.quad[2]
            /\ n >= 2 => out[n] = cr_in.quad[3]

\* C19: no compositing call writes outside the frame: whatever the sprite
\* size and the destination position, every byte written lies inside the
\* frame buffer and belongs to a pixel with 0 <= column < frame width and
\* 0 <= row < frame height, and no alpha byte of the frame is written.
C19_Original_WritesInsideFrame ==
    c_out.done =>
        LET bpp == c_out.bytes_per_pixel
            stride == c_in.frame_width * bpp + c_in.padding
        IN  \A b \in c_out.writes :
               /\ b >= 0 /\ b < stride * c_in.frame_height
               /\ b \div stride < c_in.frame_height
               /\ (b % stride) \div bpp < c_in.frame_width
               /\ bpp = 4 => (b % stride) % 4 # 3

\* C20: for any point sequence, cumulative_lengths returns a table with one
\* entry per point, whose first entry is 0 and whose entries are
\* non-decreasing.
C20_TableMonotone ==
    a_cum.done =>
        /\ Len(a_cum.cum) = Len(a_points)
        /\ Len(a_points) > 0 => a_cum.cum[1] = 0
        /\ \A i \in 1..(Len(a_cum.cum) - 1) : a_cum.cum[i] <= a_cum.cum[i + 1]

\* A table of at least three entries with a repeated point (equal
\* neighbours) and a longer segment followed by a shorter one.
C20_Witness ==
    /\ a_cum.done
    /\ Len(a_points) >= 4
    /\ \E i \in 1..(Len(a_cum.cum) - 1) : a_cum.cum[i] = a_cum.cum[i + 1]
    /\ \E i \in 2..(Len(a_points) - 1) :
          /\ Distance(a_points[i], a_points[i + 1]) > 0
          /\ Distance(a_points[i], a_points[i + 1]) < Distance(a_points[i - 1], a_points[i])

\* C21: under the call sequence of the render loop (add_sample, then
\* get_offset, for every decoded frame) the aligner leaves Collecting
\* (computed_offset becomes set) only when the sample buffer has reached
\* N = 10 entries, or when the frame of that step arrives more than 500 ms
\* after the first frame while the buffer is non-empty.
C21_Original_LeavesCollectingOnlyWhenDue ==
    [][(~alignment.computed_offset.is_some /\ alignment'.computed_offset.is_some) =>
          \/ Len(alignment'.samples) >= ALIGNMENT_SAMPLE_COUNT
          \/ /\ alignment'.samples # <<>>
             /\ Len(decoded') = Len(decoded) + 1
             /\ FrameTicksUnaligned(decoded'[Len(decoded')], render_cfg.frame_rate, frame_number)
                   - alignment'.first_frame_ms.val > ALIGNMENT_MAX_WINDOW_MS]_vars

\* The targets that segment seg (1-based) of the generated run contributes
\* to g_targets
SegmentOutput(seg) ==
    LET cum == cumulative_lengths(g_spline)
        fps == IF g_fps > 0 THEN g_fps ELSE 60
    IN  SegmentTargets(g_raw, g_spline, cum, AnchorsS(g_raw, g_spline, cum), USEC \div fps, seg)

\* C22: in generate_targets_with_click_constraints a segment whose two
\* anchors have identical timestamps contributes exactly one target, the
\* segment endpoint (the second anchor's timestamp), to the output.
C22_Original_ZeroDtSingleEndpoint ==
    (g_pc = "generated" /\ KinematicPath(g_raw, g_spline)) =>
        \A seg \in 1..(Len(g_raw) - 1) :
            g_raw[seg].timestamp_ms = g_raw[seg + 1].timestamp_ms =>
                /\ Len(SegmentOutput(seg)) = 1
                /\ SegmentOutput(seg)[1].timestamp_ms = g_raw[seg + 1].timestamp_ms

\* run is a stationary run from t0 to t1: targets every dt_frame from t0
\* while before t1, then one at t1, all at one position
IsStationaryRun(run, t0, t1, dt_frame) ==
    /\ Len(run) = CeilDiv(t1 - t0, dt_frame) + 1
    /\ \A k \in 1..(Len(run) - 1) : run[k].timestamp_ms = t0 + (k - 1) * dt_frame
    /\ run[Len(run)].timestamp_ms = t1
    /\ \A k \in 1..Len(run) : run[k].x = run[1].x /\ run[k].y = run[1].y

\* C23: whenever consecutive anchors are at the same arc length (ds = 0) and
\* dt > 0, including when every anchor and spline point is at one position,
\* the generator emits for that segment a run of targets spaced 1/frame_rate
\* apart from the first anchor's timestamp, all at one position, followed by
\* the endpoint at the second anchor's timestamp.
C23_Original_StationaryRun ==
    (g_pc = "generated" /\ Len(g_raw) >= 2 /\ Len(g_spline) >= 2) =>
        LET anchors_s == AnchorsS(g_raw, g_spline, cumulative_lengths(g_spline))
            dt_frame == USEC \div (IF g_fps > 0 THEN g_fps ELSE 60)
        IN  \A seg \in 1..(Len(g_raw) - 1) :
              LET t0 == g_raw[seg].timestamp_ms
                  t1 == g_raw[seg + 1].timestamp_ms
                  n == CeilDiv(t1 - t0, dt_frame) + 1
              IN  (anchors_s[seg + 1] = anchors_s[seg] /\ t1 > t0) =>
                     /\ KinematicPath(g_raw, g_spline) =>
                           IsStationaryRun(SegmentOutput(seg), t0, t1, dt_frame)
                     /\ \E i \in 0..Len(g_targets) :
                           /\ i + n <= Len(g_targets)
                           /\ IsStationaryRun(SubSeq(g_targets, i + 1, i + n), t0, t1, dt_frame)

\* C24: in the extended control sequence of smooth_cursor_path_with_params
\* every raw sample index is the middle-left control point P1 of at least
\* one quadruple that is sampled.
C24_Original_EveryRawIsP1 ==
    (m_out.done /\ m_out.ok) =>
        \A i \in 1..Len(m_points) :
            \E seg \in 1..Len(m_out.quads) :
                /\ m_out.ext[m_out.quads[seg].p1] = i
                /\ m_out.quads[seg].num_points >= 1

\* C24 (amended): every quadruple of the extended control sequence is
\* sampled; raw sample i (1-based) is P1 of quadruple i for i <= n - 1 and
\* P2 of quadruple i - 1 for i >= 2, so every raw sample is one of the two
\* middle control points of a sampled quadruple; the last raw sample is
\* never P1.
C24_EveryRawIsMiddle ==
    (m_out.done /\ m_out.ok) =>
        LET n == Len(m_points)
            q == m_out.quads
            ext == m_out.ext
        IN  /\ Len(q) = n - 1
            /\ \A seg \in 1..Len(q) :
                  /\ q[seg].num_points >= 1
                  /\ ext[q[seg].p0] = Max(seg - 1, 1)
                  /\ ext[q[seg].p1] = seg
                  /\ ext[q[seg].p2] = seg + 1
                  /\ ext[q[seg].p3] = Min(seg + 2, n)
            /\ \A i \in 1..n : \E seg \in 1..Len(q) : ext[q[seg].p1] = i \/ ext[q[seg].p2] = i
            /\ ~ \E seg \in 1..Len(q) : ext[q[seg].p1] = n

C24_Witness ==
    /\ m_out.done /\ m_out.ok
    /\ Len(m_points) = 4
    /\ m_out.ext = <<1, 1, 2, 3, 4, 4>>
    /\ m_out.frame_counts = <<3, 1, 3>>
    /\ m_points[1].x # m_points[4].x

RECURSIVE SumSeq(_)
SumSeq(q) == IF q = <<>> THEN 0 ELSE q[1] + SumSeq(Tail(q))

\* C25: in the chained spline each junction between consecutive segments
\* appears once (only the first sample of every segment after the first is
\* dropped), and every raw sample, including those bounding a segment whose
\* frame count is 1 and the last raw sample, is present in the chain.
C25_Original_ChainKeepsRawSamples ==
    (m_out.done /\ m_out.ok) =>
        /\ Len(m_out.chain) = SumSeq(m_out.frame_counts) - (Len(m_points) - 2)
        /\ \A i \in 1..Len(m_points) :
              \E k \in 1..Len(m_out.chain) : m_out.chain[k] = m_points[i]

\* C29: with at least 4 raw samples the smoothing stage never fails and
\* never returns an empty path: every segment's frame count is at least 1
\* and there is one per consecutive pair (no "Frame count mismatch"), the
\* chained spline, the targets and the filtered path are non-empty; the
\* stage makes the call return -3 exactly when fewer than 4 samples were
\* supplied.
C29_SmoothingNeverFailsWithFour ==
    m_out.done =>
        /\ m_out.ok <=> Len(m_points) >= 4
        /\ m_out.ret = Some(0 - 3) <=> Len(m_points) < 4
        /\ m_out.err # "Frame count mismatch"
        /\ m_out.ok =>
              /\ Len(m_out.frame_counts) = Len(m_points) - 1
              /\ \A j \in 1..Len(m_out.frame_counts) : m_out.frame_counts[j] >= 1
              /\ m_out.chain # <<>>
              /\ m_out.targets # <<>>
              /\ m_out.filtered # <<>>

\* Four samples whose segments all round to no frame at all (zero gap,
\* negative frame rate) and still give a path
C29_Witness ==
    /\ m_out.done /\ m_out.ok
    /\ Len(m_points) = 4
    /\ m_config.target_fps < 0
    /\ m_points[4].timestamp_ms > m_points[1].timestamp_ms
    /\ m_out.frame_counts = <<1, 1, 1>>
    /\ Len(m_out.filtered) = 1

\* v lies between a and b (in either order)
Between(v, a, b) == (a <= v /\ v <= b) \/ (b <= v /\ v <= a)

\* C26: for at least 2 points and cum = cumulative_lengths(points),
\* position_at_distance clamps the query to [0, S_total]; its binary search
\* ends with adjacent indices lo, lo + 1 such that cum[lo] <= s <= cum[lo+1];
\* the result lies on the segment between those two points; s <= 0 gives the
\* first point's position, s >= S_total the last point's, and a zero-length
\* bracketing pair gives the upper endpoint.
C26_BracketAndInterpolate ==
    (d_out.done /\ Len(d_in.points) >= 2) =>
        LET points == d_in.points
            cum == cumulative_lengths(points)
            total == cum[Len(cum)]
            s == d_out.s_query
            lo == d_out.bracket[1] + 1
            hi == d_out.bracket[2] + 1
        IN  /\ s >= 0 /\ s <= total
            /\ (d_in.s_query >= 0 /\ d_in.s_query <= total) => s = d_in.s_query
            /\ lo >= 1 /\ hi = lo + 1 /\ hi <= Len(points)
            /\ cum[lo] <= s /\ s <= cum[hi]
            /\ Between(d_out.pos[1], points[lo].x, points[hi].x)
            /\ Between(d_out.pos[2], points[lo].y, points[hi].y)
            /\ d_in.s_query <= 0 => d_out.pos = <<points[1].x, points[1].y>>
            /\ d_in.s_query >= total =>
                  d_out.pos = <<points[Len(points)].x, points[Len(points)].y>>
            /\ cum[lo] = cum[hi] => d_out.pos = <<points[hi].x, points[hi].y>>

\* A query strictly inside a segment that follows a repeated point, with
\* the search taking more than one step
C26_Witness ==
    /\ d_out.done
    /\ Len(d_in.points) = 4
    /\ d_out.bracket = <<2, 3>>
    /\ d_in.points[1] # d_in.points[2]
    /\ d_in.points[2].x = d_in.points[3].x /\ d_in.points[2].y = d_in.points[3].y
    /\ d_out.pos[1] # d_in.points[3].x
    /\ d_out.pos[1] # d_in.points[4].x

\* C27: for every target step of spring_follow_path (time gap dt >= 0) the
\* sub-step count is max(ceil(dt / (2/fps)), ceil(dt * omega_n * 8), 1) and
\* h = dt / substeps, so that omega_n * h <= 0.125 and h <= 2/fps hold on
\* every sub-step, including for a 5 s gap.  (dt and h in 0.1 ms, omega_n
\* in 1/100 rad/s.)
C27_SubstepBounds ==
    s_pc = "done" =>
        LET fps == IF s_config.frame_rate > 0 THEN s_config.frame_rate ELSE 60
            omega_n == derive_spring_params(s_config.responsiveness, s_config.smoothness).omega_n
        IN  /\ Len(s_steps) = Max(Len(s_points) - 1, 0)
            /\ \A i \in 1..Len(s_steps) :
                  LET st == s_steps[i]
                  IN  /\ st.dt = Max(s_points[i + 1].timestamp_ms - s_points[i].timestamp_ms, 0)
                      /\ st.substeps = Max(CeilDiv(st.dt * fps, 2 * SpringTimeUnit),
                                           Max(CeilDiv(st.dt * omega_n * 8, 100 * SpringTimeUnit), 1))
                      /\ st.h = st.dt \div st.substeps
                      /\ st.dt * omega_n * 8 <= st.substeps * 100 * SpringTimeUnit
                      /\ st.dt * fps <= st.substeps * 2 * SpringTimeUnit

\* A 5 s gap at the default 60 fps, where the frequency bound decides
C27_Witness ==
    /\ s_pc = "done"
    /\ Len(s_steps) = 1
    /\ s_config.frame_rate = 0
    /\ s_steps[1].dt = 5 * SpringTimeUnit
    /\ s_steps[1].substeps > CeilDiv(s_steps[1].dt * 60, 2 * SpringTimeUnit)
    /\ s_out[2].x # s_points[1].x

\* C30: in every reachable AlignmentState the sample buffer holds at most
\* max_samples (10) entries; no sample is appended once the offset is
\* computed; and the frame that triggers the 500 ms window transition (a
\* frame more than max_window_ms after the first one, arriving while the
\* offset is not computed and the buffer is not empty) sets the offset and
\* is itself not added to the buffer.
C30_BufferBounded ==
    /\ [](/\ alignment.max_samples = 10
          /\ Len(alignment.samples) <= alignment.max_samples)
    /\ [][/\ alignment.computed_offset.is_some =>
                alignment'.samples = alignment.samples
          /\ ( /\ align_call'.op = "add_sample"
               /\ ~alignment.computed_offset.is_some
               /\ alignment.samples # <<>>
               /\ align_call'.frame_ms - alignment.first_frame_ms.val
                      > alignment.max_window_ms ) =>
                /\ alignment'.samples = alignment.samples
                /\ alignment'.computed_offset.is_some
                /\ align_call'.ready]_vars

\* The window transition was taken with fewer than max_samples samples in
\* the buffer, none of them from the frame that triggered it
C30_Witness ==
    /\ align_call.op = "add_sample"
    /\ ~align_call.was_computed
    /\ align_call.ready
    /\ alignment.computed_offset.is_some
    /\ Len(alignment.samples) \in 2..(alignment.max_samples - 1)
    /\ align_call.frame_ms - alignment.first_frame_ms.val > alignment.max_window_ms
    /\ \A i \in 1..Len(alignment.samples) :
          alignment.samples[i] # align_call.path_start - align_call.frame_ms

\* C28: across any interleaving of concurrent or repeated calls to
\* ensure_ffmpeg_init, ffmpeg::init() runs at most once, and every call
\* returns the outcome of that one run: Ok when it succeeded, Err when it
\* failed (the failure is stored and the initialization is not run again).
C28_InitOnce ==
    /\ Len(init_log) <= 1
    /\ FFMPEG_INIT.state = "complete" =>
          (Len(init_log) = 1 /\ FFMPEG_INIT.value = init_log[1])
    /\ \A t \in InitThreadIds :
          /\ init_threads[t].pc = "check" =>
                (Len(init_log) = 1 /\ init_threads[t].initialized = init_log[1])
          /\ \A i \in 1..Len(init_threads[t].returned) :
                /\ Len(init_log) = 1
                /\ init_threads[t].returned[i] =
                      IF init_log[1] THEN "Ok" ELSE "Err(Bug)"

\* ffmpeg::init() failed once, and since then every thread has made all
\* its calls, each of which returned the error
C28_Witness ==
    /\ init_log = <<FALSE>>
    /\ \A t \in InitThreadIds :
          /\ Len(init_threads[t].returned) = MaxInitCalls
          /\ \A i \in 1..MaxInitCalls : init_threads[t].returned[i] = "Err(Bug)"

====
